---- MODULE Spec2Model ----
(***************************************************************************)
(* A model of the TypeScript-to-Rust compiler pipeline: the lexer          *)
(* (src/src/lexer.rs), the recursive-descent parser (src/src/parser.rs),   *)
(* the type mapper (src/src/types.rs), the code generator                  *)
(* (src/src/generator.rs) and the driver (src/src/compiler.rs).            *)
(*                                                                         *)
(* Source text is a sequence of characters, each a one-character string.  *)
(* A token is a record [t |-> kind, v |-> payload]; v is "" for a token    *)
(* that carries no payload.  Positions are 0-based as in the source, so    *)
(* the element under a cursor p of a sequence s is s[p + 1].               *)
(* The lexer's line/column counters only feed error messages and are left  *)
(* out of the state.                                                       *)
(***************************************************************************)
EXTENDS Integers, Sequences, FiniteSets, TLC

VARIABLES
    input,       \* Lexer.input, as a sequence of characters
    lposition,   \* Lexer.position
    ltokens,     \* the local tokens vector of Lexer::tokenize
    lstatus,     \* "scan" while tokenize runs, then "ok" or "err"
    lskipped,    \* 1-based indexes of the characters next_token stepped
                 \* over without having read them
    tokens,      \* Parser.tokens
    position,    \* Parser.position
    iterations,  \* the local iterations counter of Parser::parse
    statements,  \* the local statements vector of Parser::parse
    errors,      \* the local errors vector of Parser::parse
    pstatus,     \* "loop" in the while loop, "exit" after it, then "ok", "err"
                 \* (parse returned) or "panic" (parse unwound)
    outcome,     \* how the last parse_statement call of the loop ended
    type_mappings, \* TypeMapper.type_mappings
    generics,    \* TypeMapper.generics
    runtime,     \* TypeMapper.runtime
    mtype,       \* the argument of the last map_type call
    mresult,     \* what the last map_type call returned
    gexpr,       \* the expression handed to generate_expression
    gresult,     \* what generate_expression returned
    canswers,    \* what each step of compile returns for the input file
    output_is_dir, \* output.is_dir() in write_output
    ts_files,    \* the local ts_files of Compiler::compile_project
    penv,        \* what the file system answers to compile_project
    ppc,         \* where compile_project is
    pindex,      \* how many turns its for loop has made
    plog,        \* the files compiled and the scaffold files written, in order
    presult,     \* what compile_project returned
    program,     \* the statements of the Program handed to generate
    runtime_support, \* CodeGenerator.runtime_support
    gpc,         \* where generate is
    gindex,      \* how many turns its for loop has made
    rust_code,   \* the local rust_code of generate
    buckets,     \* CodeGenerator.imports, structs, traits, functions, enums, modules
    gen_result,  \* what generate returned
    gcalls,      \* how many calls of generate the CodeGenerator has seen
    cpc,         \* the step compile is about to run, "returned" or "unwound"
    clog,        \* the steps compile has run, in order
    cresult,     \* what compile returned
    cwritten     \* what write_output has written

lexVars == <<input, lposition, ltokens, lstatus, lskipped>>
parVars == <<tokens, position, iterations, statements, errors, pstatus, outcome>>

mapVars == <<type_mappings, generics, runtime, mtype, mresult>>
genVars == <<gexpr, gresult>>
comVars == <<canswers, output_is_dir, cpc, clog, cresult, cwritten>>

prjVars == <<ts_files, penv, ppc, pindex, plog, presult>>
prgVars == <<program, runtime_support, gpc, gindex, rust_code, buckets, gen_result, gcalls>>
othVars == <<prjVars, prgVars>>

vars == <<lexVars, parVars, mapVars, genVars, comVars, othVars>>

(***************************************************************************)
(* Bounds.                                                                 *)
(***************************************************************************)
MaxInputLen == 4
MaxTokens == 4
\* the most names add_generic is given before clear_generics
MaxGenerics == 2

(***************************************************************************)
(* Characters.                                                             *)
(***************************************************************************)
\* current_char yields '\0' when the cursor is past the last character
NUL == "NUL"
\* peek_char yields None there
NoChar == "NONE"
\* the template-literal delimiter (U+0060)
Backtick == "BACKTICK"

\* the characters of the lexer specification's inputs; "é" stands for any
\* character whose UTF-8 encoding takes two bytes
LexAlphabet == {"a", "1", " ", "\"", Backtick, "#", "é", "="}

Utf8Len(ch) == IF ch = "é" THEN 2 ELSE 1

RECURSIVE ByteLen(_)
\* String::len(): the length of the input in bytes
ByteLen(inp) == IF inp = <<>> THEN 0 ELSE Utf8Len(Head(inp)) + ByteLen(Tail(inp))

Letters == {"a", "b", "c", "d", "e", "f", "g", "h", "i", "j", "k", "l", "m",
            "n", "o", "p", "q", "r", "s", "t", "u", "v", "w", "x", "y", "z",
            "A", "B", "C", "D", "E", "F", "G", "H", "I", "J", "K", "L", "M",
            "N", "O", "P", "Q", "R", "S", "T", "U", "V", "W", "X", "Y", "Z"}
Digits == {"0", "1", "2", "3", "4", "5", "6", "7", "8", "9"}
IdentStart == Letters \cup {"_", "$"}
IdentPart == Letters \cup Digits \cup {"_", "$"}
Quotes == {"\"", "'"}
WhitespaceChars == {" ", "\n", "\t", "\r"}
SimpleChars == {"+", "-", "*", "/", "%", "=", "!", "<", ">", "&", "|", "(", ")",
                "{", "}", "[", "]", ";", ",", ".", ":", "?"}
\* the characters some arm of next_token's match accepts
RecognizedChars == SimpleChars \cup Quotes \cup {Backtick} \cup Digits \cup IdentStart

RECURSIVE StrOf(_)
\* the String built by pushing the characters of cs in order
StrOf(cs) == IF cs = <<>> THEN "" ELSE Head(cs) \o StrOf(Tail(cs))

Tok(t, v) == [t |-> t, v |-> v]
EOF == Tok("EOF", "")

current_char(inp, pos) == IF pos < Len(inp) THEN inp[pos + 1] ELSE NUL
peek_char(inp, pos) == IF pos + 1 < Len(inp) THEN inp[pos + 2] ELSE NoChar

(***************************************************************************)
(* Lexer helpers.  Each takes the input and the cursor and returns the     *)
(* cursor it leaves (and the token, where it makes one).  advance() is     *)
(* pos + 1: it does not test the end of the input.                         *)
(***************************************************************************)
RECURSIVE skip_line_comment(_, _)
skip_line_comment(inp, pos) ==
    IF pos < ByteLen(inp) /\ current_char(inp, pos) # "\n"
    THEN skip_line_comment(inp, pos + 1)
    ELSE pos

RECURSIVE skip_block_comment(_, _)
skip_block_comment(inp, pos) ==
    IF pos < ByteLen(inp)
    THEN IF current_char(inp, pos) = "*" /\ peek_char(inp, pos) = "/"
         THEN pos + 2
         ELSE skip_block_comment(inp, pos + 1)
    ELSE pos

RECURSIVE skip_whitespace(_, _)
skip_whitespace(inp, pos) ==
    IF pos < ByteLen(inp)
    THEN LET ch == current_char(inp, pos) IN
         IF ch \in WhitespaceChars
         THEN skip_whitespace(inp, pos + 1)
         ELSE IF ch = "/" /\ peek_char(inp, pos) = "/"
         THEN skip_whitespace(inp, skip_line_comment(inp, pos + 2))
         ELSE IF ch = "/" /\ peek_char(inp, pos) = "*"
         THEN skip_whitespace(inp, skip_block_comment(inp, pos + 2))
         ELSE pos
    ELSE pos

LexOk(tok, pos) == [k |-> "Token", tok |-> tok, pos |-> pos]
LexNone(pos) == [k |-> "None", tok |-> EOF, pos |-> pos]
LexErr(pos, msg) == [k |-> "Err", tok |-> Tok("Error", msg), pos |-> pos]

\* the escape table shared by parse_string and parse_template_literal: every
\* escaped character but n, t and r stands for itself
Unescape(ch) ==
    CASE ch = "n" -> "\n"
      [] ch = "t" -> "\t"
      [] ch = "r" -> "\r"
      [] OTHER -> ch

RECURSIVE string_loop(_, _, _, _)
string_loop(inp, pos, quote, value) ==
    IF pos < ByteLen(inp)
    THEN LET ch == current_char(inp, pos) IN
         IF ch = quote
         THEN LexOk(Tok("String", value), pos + 1)
         ELSE IF ch = "\\"
         THEN IF pos + 1 < ByteLen(inp)
              THEN string_loop(inp, pos + 2, quote,
                               value \o Unescape(current_char(inp, pos + 1)))
              ELSE string_loop(inp, pos + 1, quote, value)
         ELSE string_loop(inp, pos + 1, quote, value \o ch)
    ELSE LexErr(pos, "Unterminated string literal")

parse_string(inp, pos) == string_loop(inp, pos + 1, current_char(inp, pos), "")

RECURSIVE interpolation_loop(_, _, _)
\* the inner loop of parse_template_literal: copy up to the closing brace
interpolation_loop(inp, pos, value) ==
    IF pos < ByteLen(inp) /\ current_char(inp, pos) # "}"
    THEN interpolation_loop(inp, pos + 1, value \o current_char(inp, pos))
    ELSE IF pos < ByteLen(inp)
         THEN [pos |-> pos + 1, value |-> value \o "}"]
         ELSE [pos |-> pos, value |-> value]

RECURSIVE template_loop(_, _, _)
template_loop(inp, pos, value) ==
    IF pos < ByteLen(inp)
    THEN LET ch == current_char(inp, pos) IN
         IF ch = Backtick
         THEN LexOk(Tok("TemplateLiteral", value), pos + 1)
         ELSE IF ch = "\\"
         THEN IF pos + 1 < ByteLen(inp)
              THEN template_loop(inp, pos + 2,
                                 value \o Unescape(current_char(inp, pos + 1)))
              ELSE template_loop(inp, pos + 1, value)
         ELSE IF ch = "$" /\ pos + 1 < ByteLen(inp) /\ peek_char(inp, pos) = "{"
         THEN IF pos + 1 < ByteLen(inp)
              THEN LET r == interpolation_loop(inp, pos + 2, value \o "$" \o "{")
                   IN  template_loop(inp, r.pos, r.value)
              ELSE template_loop(inp, pos + 1, value \o "$")
         ELSE template_loop(inp, pos + 1, value \o ch)
    ELSE LexErr(pos, "Unterminated template literal")

parse_template_literal(inp, pos) == template_loop(inp, pos + 1, "")

RECURSIVE number_loop(_, _, _, _)
number_loop(inp, pos, value, has_dot) ==
    IF pos < ByteLen(inp)
    THEN LET ch == current_char(inp, pos) IN
         IF ch \in Digits
         THEN number_loop(inp, pos + 1, Append(value, ch), has_dot)
         ELSE IF ch = "." /\ ~has_dot
         THEN number_loop(inp, pos + 1, Append(value, ch), TRUE)
         ELSE [pos |-> pos, value |-> value]
    ELSE [pos |-> pos, value |-> value]

RECURSIVE StripLeadingZeros(_)
StripLeadingZeros(cs) ==
    IF Len(cs) > 1 /\ cs[1] = "0" /\ cs[2] # "." THEN StripLeadingZeros(Tail(cs)) ELSE cs

RECURSIVE StripFraction(_)
StripFraction(cs) ==
    IF cs # <<>> /\ cs[Len(cs)] \in {"0", "."} /\ (\E i \in 1..Len(cs) : cs[i] = ".")
    THEN StripFraction(SubSeq(cs, 1, Len(cs) - 1))
    ELSE cs

\* value.parse::<f64>(): digit strings that denote the same number give the
\* same value; the value is written by its shortest decimal numeral.  A run
\* of digits with at most one point, led by a digit, always parses.
ParseF64(cs) == StrOf(StripLeadingZeros(StripFraction(cs)))

parse_number(inp, pos) ==
    LET r == number_loop(inp, pos, <<>>, FALSE)
    IN  LexOk(Tok("Number", ParseF64(r.value)), r.pos)

RECURSIVE identifier_loop(_, _, _)
identifier_loop(inp, pos, value) ==
    IF pos < ByteLen(inp) /\ current_char(inp, pos) \in IdentPart
    THEN identifier_loop(inp, pos + 1, value \o current_char(inp, pos))
    ELSE [pos |-> pos, value |-> value]

\* the words of parse_keyword's table
Keywords ==
    {"let", "const", "var", "function", "class", "interface", "type", "enum",
     "namespace", "module", "import", "export", "from", "as", "default", "if",
     "else", "switch", "case", "for", "while", "do", "break", "continue",
     "return", "throw", "try", "catch", "finally", "extends", "implements",
     "super", "this", "new", "static", "public", "private", "protected",
     "abstract", "readonly", "async", "await", "Promise", "any", "unknown",
     "never", "void", "null", "undefined", "boolean", "number", "string",
     "object", "Array", "true", "false", "in", "of", "instanceof", "typeof",
     "keyof", "key", "is", "asserts", "infer", "declare", "global"}

parse_keyword(value) == value \in Keywords

parse_identifier_or_keyword(inp, pos) ==
    LET r == identifier_loop(inp, pos, "")
    IN  IF r.value \in {"true", "false"} THEN LexOk(Tok("Boolean", r.value), r.pos)
        ELSE IF parse_keyword(r.value) THEN LexOk(Tok("Keyword", r.value), r.pos)
        ELSE LexOk(Tok("Identifier", r.value), r.pos)

\* the arms of next_token's first match; pos is left where the arm leaves
\* the cursor
Dispatch(inp, pos) ==
    LET ch == current_char(inp, pos)
        pk == peek_char(inp, pos)
        One(t) == LexOk(Tok(t, ""), pos)
        Two(t) == LexOk(Tok(t, ""), pos + 1)
    IN  CASE ch = "+" -> IF pk = "=" THEN Two("PlusAssign")
                         ELSE IF pk = "+" THEN Two("Plus") ELSE One("Plus")
          [] ch = "-" -> IF pk = "=" THEN Two("MinusAssign")
                         ELSE IF pk = ">" THEN Two("Arrow") ELSE One("Minus")
          [] ch = "*" -> IF pk = "=" THEN Two("MultiplyAssign") ELSE One("Multiply")
          [] ch = "/" -> IF pk = "=" THEN Two("DivideAssign")
                         ELSE IF pk = "/" THEN LexNone(skip_line_comment(inp, pos + 1))
                         ELSE IF pk = "*" THEN LexNone(skip_block_comment(inp, pos + 1))
                         ELSE One("Divide")
          [] ch = "%" -> One("Modulo")
          [] ch = "=" -> IF pk = "="
                         THEN IF peek_char(inp, pos + 1) = "="
                              THEN LexOk(Tok("StrictEqual", ""), pos + 2)
                              ELSE Two("Equal")
                         ELSE One("Assign")
          [] ch = "!" -> IF pk = "="
                         THEN IF peek_char(inp, pos + 1) = "="
                              THEN LexOk(Tok("StrictNotEqual", ""), pos + 2)
                              ELSE Two("NotEqual")
                         ELSE One("Not")
          [] ch = "<" -> IF pk = "=" THEN Two("LessEqual") ELSE One("LessThan")
          [] ch = ">" -> IF pk = "=" THEN Two("GreaterEqual") ELSE One("GreaterThan")
          [] ch = "&" -> IF pk = "&" THEN Two("And") ELSE One("Intersection")
          [] ch = "|" -> IF pk = "|" THEN Two("Or") ELSE One("Union")
          [] ch = "(" -> One("LeftParen")
          [] ch = ")" -> One("RightParen")
          [] ch = "{" -> One("LeftBrace")
          [] ch = "}" -> One("RightBrace")
          [] ch = "[" -> One("LeftBracket")
          [] ch = "]" -> One("RightBracket")
          [] ch = ";" -> One("Semicolon")
          [] ch = "," -> One("Comma")
          [] ch = "." -> One("Dot")
          [] ch = ":" -> One("Colon")
          [] ch = "?" -> One("QuestionMark")
          [] ch \in Quotes -> parse_string(inp, pos)
          [] ch = Backtick -> parse_template_literal(inp, pos)
          [] ch \in Digits -> parse_number(inp, pos)
          [] ch \in IdentStart -> parse_identifier_or_keyword(inp, pos)
          [] OTHER -> LexErr(pos, "Unexpected character")

\* the characters of next_token's second match whose arm does not advance
ManagesPosition(ch) == ch \in IdentStart \cup Digits \cup Quotes

\* next_token: the result, the cursor it leaves, and read: the cursor up to
\* which the arm had read the input when the trailing advance() ran
next_token(inp, pos) ==
    LET p == skip_whitespace(inp, pos) IN
    IF p >= ByteLen(inp)
    THEN [k |-> "None", tok |-> EOF, pos |-> p, read |-> p]
    ELSE LET ch == current_char(inp, p)
             r == Dispatch(inp, p)
         IN  IF r.k = "Err" THEN [k |-> "Err", tok |-> r.tok, pos |-> r.pos, read |-> r.pos]
             ELSE IF ManagesPosition(ch)
             THEN [k |-> r.k, tok |-> r.tok, pos |-> r.pos, read |-> r.pos]
             ELSE IF ch = Backtick
             THEN [k |-> r.k, tok |-> r.tok, pos |-> r.pos + 1, read |-> r.pos]
             ELSE [k |-> r.k, tok |-> r.tok, pos |-> r.pos + 1, read |-> r.pos + 1]

\* tokenize without the final push: C1 does not hold of it
PushEOF_m(toks) == toks

\* tokens.push(Token::EOF) at the end of tokenize
PushEOF(toks) == Append(toks, EOF)

(***************************************************************************)
(* Lexer::tokenize, one action per turn of its loop.                       *)
(***************************************************************************)
\* the type mapper variables in a specification that maps no type
MapIdle ==
    /\ type_mappings = <<>>
    /\ generics = <<>>
    /\ runtime = FALSE
    /\ mtype = [ty |-> "None"]
    /\ mresult = [text |-> "", derive |-> "None"]

\* the generator variables in a specification that generates nothing
GenIdle ==
    /\ gexpr = [e |-> "None"]
    /\ gresult = [k |-> "none", v |-> ""]

\* the driver variables in a specification that runs no compile
ComIdle ==
    /\ canswers = <<>>
    /\ output_is_dir = FALSE
    /\ cpc = "idle"
    /\ clog = <<>>
    /\ cresult = [k |-> "none", step |-> ""]
    /\ cwritten = "none"

\* the project variables in a specification that compiles no project
PrjIdle ==
    /\ ts_files = <<>>
    /\ penv = [find |-> "Ok", mkdir |-> "Ok", writes |-> 0]
    /\ ppc = "idle"
    /\ pindex = 0
    /\ plog = <<>>
    /\ presult = [k |-> "none", at |-> ""]

\* the vectors of a CodeGenerator
NoBuckets ==
    [imports |-> <<>>, structs |-> <<>>, traits |-> <<>>, functions |-> <<>>,
     enums |-> <<>>, modules |-> <<>>]

\* the generator variables in a specification that generates no program
PrgIdle ==
    /\ program = <<>>
    /\ runtime_support = FALSE
    /\ gpc = "idle"
    /\ gindex = 0
    /\ rust_code = ""
    /\ buckets = NoBuckets
    /\ gen_result = [k |-> "none", v |-> ""]
    /\ gcalls = 0

OthIdle == PrjIdle /\ PrgIdle

\* the parser variables in a specification that runs no parser
ParIdle ==
    /\ tokens = <<>>
    /\ position = 0
    /\ iterations = 0
    /\ statements = <<>>
    /\ errors = <<>>
    /\ pstatus = "idle"
    /\ outcome = "none"

RECURSIVE SeqsUpTo(_, _)
\* the sequences over S of length at most n
SeqsUpTo(S, n) ==
    IF n = 0 THEN {<<>>}
    ELSE LET shorter == SeqsUpTo(S, n - 1)
         IN  shorter \cup {Append(s, c) : s \in {q \in shorter : Len(q) = n - 1}, c \in S}

LexInit ==
    /\ input \in SeqsUpTo(LexAlphabet, MaxInputLen)
    /\ lposition = 0
    /\ ltokens = <<>>
    /\ lstatus = "scan"
    /\ lskipped = {}
    /\ ParIdle /\ MapIdle /\ GenIdle /\ ComIdle /\ OthIdle

\* one turn of the while loop: next_token()? and the match on its result
LexStep ==
    /\ lstatus = "scan"
    /\ lposition < ByteLen(input)
    /\ LET r == next_token(input, lposition) IN
       /\ lposition' = r.pos
       /\ lskipped' = lskipped \cup {i \in (r.read + 1)..r.pos : i <= Len(input)}
       /\ CASE r.k = "Err" -> /\ lstatus' = "err"
                              /\ ltokens' = <<>>
            [] r.k = "Token" -> /\ lstatus' = "scan"
                                /\ ltokens' = Append(ltokens, r.tok)
            [] r.k = "None" -> /\ lstatus' = "ok"
                               /\ ltokens' = PushEOF(ltokens)
    /\ UNCHANGED <<input, parVars, mapVars, genVars, comVars, othVars>>

\* the loop condition fails: push the end marker and return Ok(tokens)
LexFinish ==
    /\ lstatus = "scan"
    /\ lposition >= ByteLen(input)
    /\ ltokens' = PushEOF(ltokens)
    /\ lstatus' = "ok"
    /\ UNCHANGED <<input, lposition, lskipped, parVars, mapVars, genVars, comVars, othVars>>

LexNext == LexStep \/ LexFinish

SpecLexer == LexInit /\ [][LexNext]_vars

(***************************************************************************)
(* Claims about the lexer.                                                 *)
(***************************************************************************)
\* C1: whenever tokenize returns Ok, the returned token sequence is not
\* empty, its last element is the end marker EOF, and EOF stands at no other
\* position.
C1_EndsWithOneEOF ==
    lstatus = "ok" =>
        /\ Len(ltokens) > 0
        /\ ltokens[Len(ltokens)] = EOF
        /\ \A i \in 1..(Len(ltokens) - 1) : ltokens[i] # EOF

\* tokenize returned Ok with two tokens before the end marker
C1_Witness == lstatus = "ok" /\ Len(ltokens) = 3

\* C8: an unrecognized character in the source makes tokenize return an
\* error: tokenize never returns Ok after having stepped over a character
\* that no arm of next_token accepts.
C8_BadInputAborts ==
    lstatus = "ok" => \A i \in lskipped : input[i] \in RecognizedChars \cup WhitespaceChars

\* C27: after every token the lexer emits, a template literal included, the
\* cursor stands right after the token's last character: no character of the
\* source is stepped over without having been read into a token, as
\* whitespace or as part of a comment.
C27_NoCharacterSkipped == lskipped = {}

(***************************************************************************)
(* The whole of Lexer::tokenize as one function, for comparing two runs.   *)
(***************************************************************************)
RECURSIVE tokenize_from(_, _, _)
\* the loop of tokenize from cursor pos with toks collected so far: how it
\* returns, the tokens it returns and the cursor it leaves
tokenize_from(inp, pos, toks) ==
    IF pos < ByteLen(inp)
    THEN LET After(r) ==
                 CASE r.k = "Err" -> [k |-> "err", toks |-> <<>>, pos |-> r.pos]
                   [] r.k = "Token" -> tokenize_from(inp, r.pos, Append(toks, r.tok))
                   [] r.k = "None" -> [k |-> "ok", toks |-> PushEOF(toks), pos |-> r.pos]
         IN  After(next_token(inp, pos))
    ELSE [k |-> "ok", toks |-> PushEOF(toks), pos |-> pos]

tokenize(inp) == tokenize_from(inp, 0, <<>>)

(***************************************************************************)
(* Sources with multi-byte characters inside string literals and comments. *)
(***************************************************************************)
\* the most characters between the delimiters of a literal or comment
MaxBodyLen == 2

\* what stands between the delimiters
BodyChars == {"a", "é", " "}

\* the delimiters of a string literal, a line comment and a block comment
LiteralDelimiters ==
    {[open |-> <<"\"">>, close |-> <<"\"">>],
     [open |-> <<"'">>, close |-> <<"'">>],
     [open |-> <<"/", "/">>, close |-> <<"\n">>],
     [open |-> <<"/", "*">>, close |-> <<"*", "/">>]}

\* plain source before and after the literal or comment
PlainBefore == {<<>>, <<"a", " ">>, <<"1", "=">>}
PlainAfter == {<<>>, <<" ", "1">>, <<";">>}

CharSources ==
    {pre \o d.open \o body \o d.close \o post :
        pre \in PlainBefore, d \in LiteralDelimiters,
        body \in SeqsUpTo(BodyChars, MaxBodyLen), post \in PlainAfter}

LexCharsInit ==
    /\ input \in CharSources
    /\ lposition = 0
    /\ ltokens = <<>>
    /\ lstatus = "scan"
    /\ lskipped = {}
    /\ ParIdle /\ MapIdle /\ GenIdle /\ ComIdle /\ OthIdle

SpecLexChars == LexCharsInit /\ [][LexNext]_vars

\* the source with every multi-byte character replaced by the letter a
SingleByte(inp) == [i \in 1..Len(inp) |-> IF Utf8Len(inp[i]) > 1 THEN "a" ELSE inp[i]]

RECURSIVE SingleByteStr(_)
\* the same replacement in the payload of a token
SingleByteStr(s) ==
    IF Len(s) = 0 THEN ""
    ELSE (IF Utf8Len(SubSeq(s, 1, 1)) > 1 THEN "a" ELSE SubSeq(s, 1, 1))
         \o SingleByteStr(SubSeq(s, 2, Len(s)))

SingleByteTokens(toks) ==
    [i \in 1..Len(toks) |-> Tok(toks[i].t, SingleByteStr(toks[i].v))]

MaxOpLen == 3

OpAlphabet == {"=", "!", "<", ">", "&", "|", "+", "-", "*", "/"}

\* the operator tokens and their spellings
OperatorSpellings ==
    {[s |-> <<"=", "=", "=">>, t |-> "StrictEqual"],
     [s |-> <<"!", "=", "=">>, t |-> "StrictNotEqual"],
     [s |-> <<"=", "=">>, t |-> "Equal"],
     [s |-> <<"!", "=">>, t |-> "NotEqual"],
     [s |-> <<"<", "=">>, t |-> "LessEqual"],
     [s |-> <<">", "=">>, t |-> "GreaterEqual"],
     [s |-> <<"&", "&">>, t |-> "And"],
     [s |-> <<"|", "|">>, t |-> "Or"],
     [s |-> <<"+", "=">>, t |-> "PlusAssign"],
     [s |-> <<"-", "=">>, t |-> "MinusAssign"],
     [s |-> <<"*", "=">>, t |-> "MultiplyAssign"],
     [s |-> <<"/", "=">>, t |-> "DivideAssign"],
     [s |-> <<"-", ">">>, t |-> "Arrow"],
     [s |-> <<"+">>, t |-> "Plus"],
     [s |-> <<"-">>, t |-> "Minus"],
     [s |-> <<"*">>, t |-> "Multiply"],
     [s |-> <<"/">>, t |-> "Divide"],
     [s |-> <<"=">>, t |-> "Assign"],
     [s |-> <<"!">>, t |-> "Not"],
     [s |-> <<"<">>, t |-> "LessThan"],
     [s |-> <<">">>, t |-> "GreaterThan"],
     [s |-> <<"&">>, t |-> "Intersection"],
     [s |-> <<"|">>, t |-> "Union"]}

\* a comment opens at index i of the source
OpensComment(inp, i) == i < Len(inp) /\ inp[i] = "/" /\ inp[i + 1] \in {"/", "*"}

\* the sources of operator characters that hold no comment
OpSources ==
    {s \in SeqsUpTo(OpAlphabet, MaxOpLen) : \A i \in 1..Len(s) : ~OpensComment(s, i)}

LexOpsInit ==
    /\ input \in OpSources
    /\ lposition = 0
    /\ ltokens = <<>>
    /\ lstatus = "scan"
    /\ lskipped = {}
    /\ ParIdle /\ MapIdle /\ GenIdle /\ ComIdle /\ OthIdle

SpecLexOps == LexOpsInit /\ [][LexNext]_vars

\* the spellings that start at cursor pos of the source
SpellingsAt(inp, pos) ==
    {o \in OperatorSpellings :
        /\ pos + Len(o.s) <= Len(inp)
        /\ SubSeq(inp, pos + 1, pos + Len(o.s)) = o.s}

\* the longest of them
LongestAt(inp, pos) ==
    CHOOSE o \in SpellingsAt(inp, pos) : \A q \in SpellingsAt(inp, pos) : Len(q.s) <= Len(o.s)

RECURSIVE LongestMatch(_, _)
\* the tokens of the source from cursor pos on when each token is the one
\* of the longest spelling that starts where the one before it ended
LongestMatch(inp, pos) ==
    IF pos >= Len(inp) THEN <<>>
    ELSE <<Tok(LongestAt(inp, pos).t, "")>>
         \o LongestMatch(inp, pos + Len(LongestAt(inp, pos).s))

\* C20: at every position the lexer emits the token of the longest operator
\* spelling that starts there: a source of operator characters is returned
\* as the tokens of its longest spellings, taken from left to right, so the
\* characters of an operator are neither split over two tokens nor merged
\* into the token of another operator.
C20_LongestOperatorWins ==
    lstatus \in {"ok", "err"} =>
        /\ lstatus = "ok"
        /\ ltokens = Append(LongestMatch(input, 0), EOF)

\* the lexer variables in a specification that runs no lexer
LexIdle ==
    /\ input = <<>>
    /\ lposition = 0
    /\ ltokens = <<>>
    /\ lstatus = "idle"
    /\ lskipped = {}

(***************************************************************************)
(* Parser (src/src/parser.rs).  Every parse function takes the token       *)
(* vector and the cursor and returns [k, pos, v]: k is "Ok" or "Err" as in  *)
(* the source's Result, or "Panic" when the function indexed the token     *)
(* vector at or past its length; pos is the cursor the call leaves; v is   *)
(* the value built (or the error's message).  The ? operator is the test   *)
(* r.k # "Ok" followed by returning r.                                     *)
(***************************************************************************)
POk(pos, v) == [k |-> "Ok", pos |-> pos, v |-> v]
PErr(pos, msg) == [k |-> "Err", pos |-> pos, v |-> msg]
PPanic(pos) == [k |-> "Panic", pos |-> pos, v |-> "index out of bounds"]

\* &self.tokens[self.position] is defined only below tokens.len()
InRange(toks, pos) == pos < Len(toks)
current_token(toks, pos) == toks[pos + 1]

advance(toks, pos) == IF pos < Len(toks) THEN pos + 1 ELSE pos

expect_token(toks, pos, expected) ==
    IF ~InRange(toks, pos) THEN PPanic(pos)
    ELSE IF current_token(toks, pos) = expected
         THEN POk(advance(toks, pos), "")
         ELSE PErr(pos, "Expected token")

expect_keyword(toks, pos) ==
    IF ~InRange(toks, pos) THEN PPanic(pos)
    ELSE IF current_token(toks, pos).t = "Keyword"
         THEN POk(advance(toks, pos), current_token(toks, pos).v)
         ELSE PErr(pos, "Expected keyword")

expect_identifier(toks, pos) ==
    IF ~InRange(toks, pos) THEN PPanic(pos)
    ELSE IF current_token(toks, pos).t = "Identifier"
         THEN POk(advance(toks, pos), current_token(toks, pos).v)
         ELSE PErr(pos, "Expected identifier")

expect_semicolon(toks, pos) == expect_token(toks, pos, Tok("Semicolon", ""))

\* the token kinds of is_assignment_operator .. is_postfix_operator
AssignmentOperators == {"Assign", "PlusAssign", "MinusAssign", "MultiplyAssign", "DivideAssign"}
EqualityOperators == {"Equal", "NotEqual", "StrictEqual", "StrictNotEqual"}
RelationalOperators == {"LessThan", "GreaterThan", "LessEqual", "GreaterEqual"}
AdditiveOperators == {"Plus", "Minus"}
MultiplicativeOperators == {"Multiply", "Divide", "Modulo"}
PostfixOperators == {"LeftParen", "LeftBracket", "Dot"}

is_unary_operator(tok) ==
    tok.t \in {"Plus", "Minus", "Not"} \/ tok = Tok("Keyword", "typeof")

\* the additive and the multiplicative level the wrong way round: C21 does
\* not hold of it
LevelOperators_m(level) ==
    CASE level = 1 -> {"Or"}
      [] level = 2 -> {"And"}
      [] level = 3 -> EqualityOperators
      [] level = 4 -> RelationalOperators
      [] level = 5 -> MultiplicativeOperators
      [] level = 6 -> AdditiveOperators

\* The six left-associative binary levels, loosest first: logical or,
\* logical and, equality, relational, additive, multiplicative.
LevelOperators(level) ==
    CASE level = 1 -> {"Or"}
      [] level = 2 -> {"And"}
      [] level = 3 -> EqualityOperators
      [] level = 4 -> RelationalOperators
      [] level = 5 -> AdditiveOperators
      [] level = 6 -> MultiplicativeOperators

\* the node a level builds: Logical for the two logical levels, else Binary
LevelNode(level, left, operator, right) ==
    [e |-> IF level <= 2 THEN "Logical" ELSE "Binary",
     left |-> left, operator |-> operator, right |-> right]

RECURSIVE parse_statement(_, _), parse_block_statement(_, _), block_loop(_, _, _),
          parse_expression(_, _), parse_assignment_expression(_, _),
          parse_conditional_expression(_, _), binary_level(_, _, _),
          binary_loop(_, _, _, _), binary_levels(_, _, _, _),
          parse_unary_expression(_, _),
          parse_postfix_expression(_, _), postfix_loop(_, _, _),
          parse_primary_expression(_, _), parse_arguments(_, _, _),
          parse_object_expression(_, _), object_loop(_, _, _),
          parse_array_expression(_, _), array_loop(_, _, _),
          parse_if_statement(_, _), parse_declare_statement(_, _)

parse_expression(toks, pos) == parse_assignment_expression(toks, pos)

parse_assignment_expression(toks, pos) ==
    LET AfterLeft(l) ==
            IF l.k # "Ok" THEN l
            ELSE IF ~InRange(toks, l.pos) THEN PPanic(l.pos)
            ELSE IF current_token(toks, l.pos).t \in AssignmentOperators
            THEN LET r == parse_assignment_expression(toks, advance(toks, l.pos)) IN
                 IF r.k # "Ok" THEN r
                 ELSE POk(r.pos, [e |-> "Assignment", left |-> l.v,
                                  operator |-> current_token(toks, l.pos), right |-> r.v])
            ELSE l
    IN  AfterLeft(parse_conditional_expression(toks, pos))

parse_logical_or_expression(toks, pos) == binary_level(1, toks, pos)

parse_conditional_expression(toks, pos) ==
    LET AfterTest(test) ==
            IF test.k # "Ok" THEN test
            ELSE IF ~InRange(toks, test.pos) THEN PPanic(test.pos)
            ELSE IF current_token(toks, test.pos).t = "QuestionMark"
            THEN LET c == parse_expression(toks, advance(toks, test.pos)) IN
                 IF c.k # "Ok" THEN c
                 ELSE LET colon == expect_token(toks, c.pos, Tok("Colon", "")) IN
                      IF colon.k # "Ok" THEN colon
                      ELSE LET a == parse_expression(toks, colon.pos) IN
                           IF a.k # "Ok" THEN a
                           ELSE POk(a.pos, [e |-> "Conditional", test |-> test.v,
                                            consequent |-> c.v, alternate |-> a.v])
            ELSE test
    IN  AfterTest(parse_logical_or_expression(toks, pos))

\* the while loop of a binary level; its right operands are parsed by the
\* next tighter level
binary_loop(level, toks, pos, left) ==
    CASE ~InRange(toks, pos) -> PPanic(pos)
      [] InRange(toks, pos) /\ current_token(toks, pos).t \notin LevelOperators(level) ->
            POk(pos, left)
      [] OTHER ->
            LET r == binary_level(level + 1, toks, advance(toks, pos)) IN
            IF r.k # "Ok" THEN r
            ELSE binary_loop(level, toks, r.pos,
                             LevelNode(level, left, current_token(toks, pos), r.v))

\* Each binary level first calls the next tighter one at the same cursor and
\* then runs its own loop on the result, so level n is: the unary
\* expression, then the loops of levels 6 down to n, each after ? on the
\* result so far.  l is the result so far, current the level whose loop is
\* next.
binary_levels(current, level, toks, l) ==
    IF l.k # "Ok" \/ current < level THEN l
    ELSE binary_levels(current - 1, level, toks,
                       binary_loop(current, toks, l.pos, l.v))

\* levels 1 to 6 are the binary levels; level 7 is the operand parser of
\* the multiplicative level, parse_unary_expression
binary_level(level, toks, pos) ==
    binary_levels(6, level, toks, parse_unary_expression(toks, pos))

parse_logical_and_expression(toks, pos) == binary_level(2, toks, pos)
parse_equality_expression(toks, pos) == binary_level(3, toks, pos)
parse_relational_expression(toks, pos) == binary_level(4, toks, pos)
parse_additive_expression(toks, pos) == binary_level(5, toks, pos)
parse_multiplicative_expression(toks, pos) == binary_level(6, toks, pos)

parse_unary_expression(toks, pos) ==
    CASE ~InRange(toks, pos) -> PPanic(pos)
      [] InRange(toks, pos) /\ ~is_unary_operator(current_token(toks, pos)) ->
            parse_postfix_expression(toks, pos)
      [] OTHER ->
            LET a == parse_unary_expression(toks, advance(toks, pos)) IN
            IF a.k # "Ok" THEN a
            ELSE POk(a.pos, [e |-> "Unary", operator |-> current_token(toks, pos),
                             argument |-> a.v])

\* the while loop of parse_arguments
parse_arguments(toks, pos, arguments) ==
    IF ~InRange(toks, pos) THEN PPanic(pos)
    ELSE IF current_token(toks, pos).t # "RightParen"
    THEN LET a == parse_expression(toks, pos) IN
         IF a.k # "Ok" THEN a
         ELSE IF ~InRange(toks, a.pos) THEN PPanic(a.pos)
         ELSE IF current_token(toks, a.pos).t = "Comma"
         THEN parse_arguments(toks, advance(toks, a.pos), Append(arguments, a.v))
         ELSE IF current_token(toks, a.pos).t # "RightParen"
         THEN PErr(a.pos, "Expected comma or closing parenthesis")
         ELSE parse_arguments(toks, a.pos, Append(arguments, a.v))
    ELSE POk(pos, arguments)

\* the while loop of parse_postfix_expression
postfix_loop(toks, pos, left) ==
    IF ~InRange(toks, pos) THEN PPanic(pos)
    ELSE LET t == current_token(toks, pos).t IN
    IF t \notin PostfixOperators THEN POk(pos, left)
    ELSE IF t = "LeftParen"
    THEN LET args == parse_arguments(toks, advance(toks, pos), <<>>) IN
         IF args.k # "Ok" THEN args
         ELSE LET close == expect_token(toks, args.pos, Tok("RightParen", "")) IN
              IF close.k # "Ok" THEN close
              ELSE postfix_loop(toks, close.pos,
                                [e |-> "Call", callee |-> left, arguments |-> args.v])
    ELSE IF t = "LeftBracket"
    THEN LET index == parse_expression(toks, advance(toks, pos)) IN
         IF index.k # "Ok" THEN index
         ELSE LET close == expect_token(toks, index.pos, Tok("RightBracket", "")) IN
              IF close.k # "Ok" THEN close
              ELSE postfix_loop(toks, close.pos,
                                [e |-> "Member", object |-> left, property |-> index.v,
                                 computed |-> TRUE])
    ELSE LET property == expect_identifier(toks, advance(toks, pos)) IN
         IF property.k # "Ok" THEN property
         ELSE postfix_loop(toks, property.pos,
                           [e |-> "Member", object |-> left,
                            property |-> [e |-> "Identifier", name |-> property.v],
                            computed |-> FALSE])

parse_postfix_expression(toks, pos) ==
    LET AfterLeft(l) == IF l.k # "Ok" THEN l ELSE postfix_loop(toks, l.pos, l.v)
    IN  AfterLeft(parse_primary_expression(toks, pos))

RECURSIVE MatchingParen(_, _, _)
\* the lookahead of the LeftParen arm: the index after the parenthesis that
\* closes the one at the cursor
MatchingParen(toks, pos, paren_count) ==
    IF pos < Len(toks) /\ paren_count > 0
    THEN MatchingParen(toks, pos + 1,
                       CASE toks[pos + 1].t = "LeftParen" -> paren_count + 1
                         [] toks[pos + 1].t = "RightParen" -> paren_count - 1
                         [] OTHER -> paren_count)
    ELSE pos

parse_property_key(toks, pos) == parse_expression(toks, pos)

parse_primary_expression(toks, pos) ==
    IF ~InRange(toks, pos) THEN PPanic(pos)
    ELSE LET token == current_token(toks, pos)
             next == advance(toks, pos)
             Lit(kind) == POk(next, [e |-> "Literal", lit |-> kind, v |-> token.v])
    IN  CASE token.t = "Number" -> Lit("Number")
          [] token.t = "String" -> Lit("String")
          [] token.t = "TemplateLiteral" ->
                POk(next, [e |-> "Template",
                           quasis |-> <<[value |-> token.v, tail |-> TRUE]>>,
                           expressions |-> <<>>])
          [] token.t = "Boolean" -> Lit("Boolean")
          [] token.t = "Null" \/ token = Tok("Keyword", "null") -> Lit("Null")
          [] token.t = "Undefined" \/ token = Tok("Keyword", "undefined") -> Lit("Undefined")
          [] token.t = "Identifier" -> POk(next, [e |-> "Identifier", name |-> token.v])
          [] token = Tok("Keyword", "this") ->
                IF ~InRange(toks, next) THEN PPanic(next)
                ELSE IF current_token(toks, next).t = "Dot"
                THEN LET property == expect_identifier(toks, advance(toks, next)) IN
                     IF property.k # "Ok" THEN property
                     ELSE POk(property.pos,
                              [e |-> "Member", object |-> [e |-> "This"],
                               property |-> [e |-> "Identifier", name |-> property.v],
                               computed |-> FALSE])
                ELSE POk(next, [e |-> "This"])
          [] token = Tok("Keyword", "super") -> POk(next, [e |-> "Super"])
          [] token = Tok("Keyword", "new") ->
                LET callee == parse_primary_expression(toks, next) IN
                IF callee.k # "Ok" THEN callee
                ELSE IF ~InRange(toks, callee.pos) THEN PPanic(callee.pos)
                ELSE IF current_token(toks, callee.pos).t = "LeftParen"
                THEN LET args == parse_arguments(toks, advance(toks, callee.pos), <<>>) IN
                     IF args.k # "Ok" THEN args
                     ELSE LET close == expect_token(toks, args.pos, Tok("RightParen", "")) IN
                          IF close.k # "Ok" THEN close
                          ELSE POk(close.pos, [e |-> "New", callee |-> callee.v,
                                               arguments |-> args.v])
                ELSE POk(callee.pos, [e |-> "New", callee |-> callee.v, arguments |-> <<>>])
          [] token.t = "LeftParen" ->
                LET after == MatchingParen(toks, pos + 1, 1)
                    is_arrow == after < Len(toks) /\ toks[after + 1].t = "Arrow"
                IN  \* the arrow-function arm needs an Arrow token, which no
                    \* token alphabet of the specifications below holds
                    (CASE ~is_arrow ->
                        LET expression == parse_expression(toks, next) IN
                        IF expression.k # "Ok" THEN expression
                        ELSE LET close == expect_token(toks, expression.pos,
                                                       Tok("RightParen", "")) IN
                             IF close.k # "Ok" THEN close
                             ELSE POk(close.pos, [e |-> "Parenthesized",
                                                  expression |-> expression.v]))
          [] token.t = "LeftBrace" -> parse_object_expression(toks, pos)
          [] token.t = "LeftBracket" -> parse_array_expression(toks, pos)
          [] OTHER -> PErr(pos, "Unexpected token")

\* the while loop of parse_object_expression and the closing brace
object_loop(toks, pos, properties) ==
    IF ~InRange(toks, pos) THEN PPanic(pos)
    ELSE IF current_token(toks, pos).t # "RightBrace"
    THEN LET key == parse_property_key(toks, pos) IN
         IF key.k # "Ok" THEN key
         ELSE IF ~InRange(toks, key.pos) THEN PPanic(key.pos)
         ELSE LET value == IF current_token(toks, key.pos).t = "Colon"
                           THEN parse_expression(toks, advance(toks, key.pos))
                           ELSE key
              IN  IF value.k # "Ok" THEN value
                  ELSE IF ~InRange(toks, value.pos) THEN PPanic(value.pos)
                  ELSE object_loop(toks,
                                   IF current_token(toks, value.pos).t = "Comma"
                                   THEN advance(toks, value.pos) ELSE value.pos,
                                   Append(properties, [key |-> key.v, value |-> value.v]))
    ELSE POk(advance(toks, pos), [e |-> "Object", properties |-> properties])

parse_object_expression(toks, pos) ==
    LET open == expect_token(toks, pos, Tok("LeftBrace", "")) IN
    IF open.k # "Ok" THEN open ELSE object_loop(toks, open.pos, <<>>)

\* the while loop of parse_array_expression and the closing bracket; an
\* elided element is the string "None"
array_loop(toks, pos, elements) ==
    IF ~InRange(toks, pos) THEN PPanic(pos)
    ELSE IF current_token(toks, pos).t # "RightBracket"
    THEN IF current_token(toks, pos).t = "Comma"
         THEN array_loop(toks, advance(toks, pos), Append(elements, "None"))
         ELSE LET el == parse_expression(toks, pos) IN
              IF el.k # "Ok" THEN el
              ELSE IF ~InRange(toks, el.pos) THEN PPanic(el.pos)
              ELSE array_loop(toks,
                              IF current_token(toks, el.pos).t = "Comma"
                              THEN advance(toks, el.pos) ELSE el.pos,
                              Append(elements, el.v))
    ELSE POk(advance(toks, pos), [e |-> "Array", elements |-> elements])

parse_array_expression(toks, pos) ==
    LET open == expect_token(toks, pos, Tok("LeftBracket", "")) IN
    IF open.k # "Ok" THEN open ELSE array_loop(toks, open.pos, <<>>)

parse_expression_statement(toks, pos) ==
    LET AfterExpression(expression) ==
            IF expression.k # "Ok" THEN expression
            ELSE LET semi == expect_semicolon(toks, expression.pos) IN
                 IF semi.k # "Ok" THEN semi
                 ELSE POk(semi.pos, [s |-> "ExpressionStatement",
                                     expression |-> expression.v])
    IN  AfterExpression(parse_expression(toks, pos))

parse_variable_declaration(toks, pos) ==
    LET keyword == expect_keyword(toks, pos) IN
    IF keyword.k # "Ok" THEN keyword
    ELSE LET name == expect_identifier(toks, keyword.pos) IN
    IF name.k # "Ok" THEN name
    ELSE IF ~InRange(toks, name.pos) THEN PPanic(name.pos)
    ELSE \* a type annotation needs a Colon token, which no token alphabet of
         \* the specifications below holds
         CASE current_token(toks, name.pos).t # "Colon" ->
            LET AfterInitializer(initializer) ==
                    IF initializer.k # "Ok" THEN initializer
                    ELSE LET semi == expect_semicolon(toks, initializer.pos) IN
                         IF semi.k # "Ok" THEN semi
                         ELSE POk(semi.pos, [s |-> "VariableDeclaration",
                                             keyword |-> keyword.v, name |-> name.v,
                                             type_annotation |-> "None",
                                             initializer |-> initializer.v])
            IN  AfterInitializer(IF current_token(toks, name.pos).t = "Assign"
                                 THEN parse_expression(toks, advance(toks, name.pos))
                                 ELSE POk(name.pos, "None"))

\* the optional semicolon that ends a return or a throw statement
OptionalSemicolon(toks, pos, statement) ==
    IF ~InRange(toks, pos) THEN PPanic(pos)
    ELSE IF current_token(toks, pos).t = "Semicolon"
         THEN POk(advance(toks, pos), statement)
         ELSE POk(pos, statement)

parse_return_statement(toks, pos) ==
    LET keyword == expect_keyword(toks, pos) IN
    IF keyword.k # "Ok" THEN keyword
    ELSE IF ~InRange(toks, keyword.pos) THEN PPanic(keyword.pos)
    ELSE LET AfterArgument(argument) ==
                 IF argument.k # "Ok" THEN argument
                 ELSE OptionalSemicolon(toks, argument.pos,
                                        [s |-> "ReturnStatement", argument |-> argument.v])
         IN  AfterArgument(IF current_token(toks, keyword.pos).t = "Semicolon"
                           THEN POk(keyword.pos, "None")
                           ELSE parse_expression(toks, keyword.pos))

parse_throw_statement(toks, pos) ==
    LET keyword == expect_keyword(toks, pos) IN
    IF keyword.k # "Ok" THEN keyword
    ELSE LET AfterArgument(argument) ==
                 IF argument.k # "Ok" THEN argument
                 ELSE OptionalSemicolon(toks, argument.pos,
                                        [s |-> "ThrowStatement", argument |-> argument.v])
         IN  AfterArgument(parse_expression(toks, keyword.pos))

\* Option::unwrap() on the result of a nested parse_statement()?: an Err is
\* returned, None unwinds, Some(statement) is the statement
Unwrap(r) ==
    CASE r.k = "None" -> [k |-> "Panic", pos |-> r.pos, v |-> "unwrap on None"]
      [] OTHER -> r

parse_if_statement(toks, pos) ==
    LET keyword == expect_keyword(toks, pos) IN
    IF keyword.k # "Ok" THEN keyword
    ELSE LET open == expect_token(toks, keyword.pos, Tok("LeftParen", "")) IN
    IF open.k # "Ok" THEN open
    ELSE LET AfterTest(test) ==
                 IF test.k # "Ok" THEN test
                 ELSE LET close == expect_token(toks, test.pos, Tok("RightParen", "")) IN
                 IF close.k # "Ok" THEN close
                 ELSE LET consequent == Unwrap(parse_statement(toks, close.pos)) IN
                 IF consequent.k # "Ok" THEN consequent
                 ELSE IF ~InRange(toks, consequent.pos) THEN PPanic(consequent.pos)
                 ELSE LET alternate ==
                              IF current_token(toks, consequent.pos) = Tok("Keyword", "else")
                              THEN Unwrap(parse_statement(toks,
                                                          advance(toks, consequent.pos)))
                              ELSE POk(consequent.pos, "None")
                      IN  IF alternate.k # "Ok" THEN alternate
                          ELSE POk(alternate.pos,
                                   [s |-> "IfStatement", condition |-> test.v,
                                    consequent |-> consequent.v,
                                    alternate |-> alternate.v])
         IN  AfterTest(parse_expression(toks, open.pos))

parse_declare_statement(toks, pos) ==
    LET keyword == expect_keyword(toks, pos) IN
    IF keyword.k # "Ok" THEN keyword
    ELSE LET declaration == Unwrap(parse_statement(toks, keyword.pos)) IN
         IF declaration.k # "Ok" THEN declaration
         ELSE POk(declaration.pos, [s |-> "DeclareStatement",
                                    declaration |-> declaration.v])

\* the while loop of parse_block_statement and the closing brace
block_loop(toks, pos, stmts) ==
    CASE ~InRange(toks, pos) -> PPanic(pos)
      [] InRange(toks, pos) /\ current_token(toks, pos).t = "RightBrace" ->
            POk(advance(toks, pos), [s |-> "BlockStatement", statements |-> stmts])
      [] OTHER ->
            LET r == parse_statement(toks, pos) IN
            (CASE r.k = "Ok" -> block_loop(toks, r.pos, Append(stmts, r.v))
               [] r.k = "None" ->
                    LET close == expect_token(toks, r.pos, Tok("RightBrace", "")) IN
                    IF close.k # "Ok" THEN close
                    ELSE POk(close.pos, [s |-> "BlockStatement", statements |-> stmts])
               [] OTHER -> r)

parse_block_statement(toks, pos) ==
    LET open == expect_token(toks, pos, Tok("LeftBrace", "")) IN
    IF open.k # "Ok" THEN open ELSE block_loop(toks, open.pos, <<>>)

\* Ok(None): v tells the end of the input ("end") from the arm that drops a
\* failed expression statement ("skipped")
PNone(pos, why) == [k |-> "None", pos |-> pos, v |-> why]

\* the keywords whose arm of parse_statement is a declaration parser that
\* this model does not hold; no token sequence below holds them
DeclarationKeywords ==
    {"function", "class", "interface", "type", "enum", "import", "export",
     "namespace", "module"}

\* the keywords with an arm of their own in parse_statement
StatementKeywords ==
    DeclarationKeywords \cup {"let", "var", "const", "declare", "return", "throw", "if"}

\* parse_statement returns Result<Option<Statement>>: k is "Ok" for
\* Ok(Some(statement)), "None" for Ok(None), "Err" for Err
parse_statement(toks, pos) ==
    IF pos >= Len(toks) THEN PNone(pos, "end")
    ELSE LET token == current_token(toks, pos) IN
    CASE token = EOF -> PNone(pos, "end")
      [] token.t = "Keyword" /\ token.v \in {"let", "var"} ->
            parse_variable_declaration(toks, pos)
      [] token = Tok("Keyword", "const")
         /\ ~(pos + 1 < Len(toks) /\ toks[pos + 2] = Tok("Keyword", "enum")) ->
            parse_variable_declaration(toks, pos)
      [] token = Tok("Keyword", "declare") -> parse_declare_statement(toks, pos)
      [] token = Tok("Keyword", "return") -> parse_return_statement(toks, pos)
      [] token = Tok("Keyword", "throw") -> parse_throw_statement(toks, pos)
      [] token = Tok("Keyword", "if") -> parse_if_statement(toks, pos)
      [] token.t = "Keyword" /\ token.v \notin StatementKeywords ->
            parse_expression_statement(toks, pos)
      [] token.t = "LeftBrace" -> parse_block_statement(toks, pos)
      [] token.t = "Semicolon" -> parse_statement(toks, advance(toks, pos))
      [] token.t \notin {"EOF", "Keyword", "LeftBrace", "Semicolon"} ->
            \* a failed expression statement is skipped, not reported
            LET Skip(r) == IF r.k = "Err" THEN PNone(advance(toks, r.pos), "skipped") ELSE r
            IN  Skip(parse_expression_statement(toks, pos))

(***************************************************************************)
(* Parser::parse, one action per turn of its loop and one for the code     *)
(* after the loop.                                                         *)
(***************************************************************************)
\* the tokens of the parser specification's inputs
ParserAlphabet ==
    {Tok("Identifier", "x"), Tok("Semicolon", ""), Tok("LeftBrace", ""),
     Tok("RightBrace", ""), Tok("Keyword", "let"), Tok("Keyword", "else")}

\* inputs with calls, parentheses and initializers, beside the sequences over
\* ParserAlphabet
ParserSamples ==
    LET x == Tok("Identifier", "x")
        semi == Tok("Semicolon", "")
        open == Tok("LeftParen", "")
        close == Tok("RightParen", "")
    IN  {<<x, open, x, close, semi, EOF>>,
         <<x, open, x, semi, x, semi, EOF>>,
         <<open, x, close, semi, x, semi, EOF>>,
         <<x, semi, x, open, close, EOF>>,
         <<Tok("Keyword", "let"), x, Tok("Assign", ""), Tok("Number", "1"), semi, EOF>>,
         <<Tok("Keyword", "return"), x, semi, x, Tok("Dot", ""), x, semi, EOF>>}

max_iterations == Len(tokens) * 2

\* the loop body without advance() on Err and without the progress check:
\* C3 does not hold of it
NextCursor_m(r, old_position) == r.pos

\* the cursor after the match on parse_statement()'s result r and the progress
\* check against the cursor old_position of the turn's start
NextCursor(r, old_position) ==
    LET after_match == IF r.k = "Err" THEN advance(tokens, r.pos) ELSE r.pos
    IN  IF after_match = old_position THEN after_match + 1 ELSE after_match

ParInit ==
    /\ tokens \in {Append(body, EOF) : body \in SeqsUpTo(ParserAlphabet, MaxTokens)}
                  \cup ParserSamples
    /\ position = 0
    /\ iterations = 0
    /\ statements = <<>>
    /\ errors = <<>>
    /\ pstatus = "loop"
    /\ outcome = "none"
    /\ LexIdle /\ MapIdle /\ GenIdle /\ ComIdle /\ OthIdle

\* the condition of the while loop: a turn of the loop can be taken
LoopGuard ==
    pstatus = "loop" /\ position < Len(tokens) /\ iterations < max_iterations

\* the body of the while loop, from parse_statement() to iterations += 1
ParseIteration ==
    /\ LoopGuard
    /\ \E r \in {parse_statement(tokens, position)} :
       LET p2 == NextCursor(r, position)
       IN  /\ outcome' = IF r.k \in {"None", "Panic"} THEN r.v ELSE r.k
           /\ statements' = IF r.k = "Ok" THEN Append(statements, r.v) ELSE statements
           /\ errors' = IF r.k = "Err" THEN Append(errors, r.v) ELSE errors
           \* the loop goes on unless the cursor stands on the end marker
           /\ position' = IF r.k \in {"Ok", "Err"} THEN p2 ELSE r.pos
           /\ pstatus' = IF r.k = "Panic" THEN "panic"
                          ELSE IF r.k = "None" THEN "exit"
                          ELSE IF p2 < Len(tokens) /\ tokens[p2 + 1] = EOF THEN "exit"
                          ELSE "loop"
           /\ iterations' = IF r.k \in {"Ok", "Err"}
                                /\ ~(p2 < Len(tokens) /\ tokens[p2 + 1] = EOF)
                             THEN iterations + 1 ELSE iterations
    /\ UNCHANGED <<tokens, lexVars, mapVars, genVars, comVars, othVars>>

\* the code after the loop
ParseReturn ==
    /\ \/ pstatus = "exit"
       \/ pstatus = "loop" /\ ~LoopGuard
    /\ pstatus' = IF iterations >= max_iterations THEN "err"
                  ELSE IF statements # <<>> THEN "ok"
                  ELSE IF errors # <<>> THEN "err"
                  ELSE "ok"
    /\ UNCHANGED <<tokens, position, iterations, statements, errors, outcome, lexVars>>
    /\ UNCHANGED <<mapVars, genVars, comVars, othVars>>

ParNext == ParseIteration \/ ParseReturn

SpecParser == ParInit /\ [][ParNext]_vars

\* parse() is a sequential function that runs to its end: a turn of the loop
\* that can be taken is taken, and so is the code after the loop. LoopGuard is
\* ENABLED <<ParseIteration>>_vars (every turn changes pstatus or iterations),
\* so the last conjunct is WF_vars(ParseIteration) written out.
SpecParserLive ==
    /\ SpecParser
    /\ WF_vars(ParseReturn)
    /\ ([]<>(~LoopGuard) \/ []<><<ParseIteration>>_vars)

\* parse() has left its loop and returned, or has unwound
ParseDone == pstatus \in {"ok", "err", "panic"}

EndsWithOneEOF(toks) ==
    /\ Len(toks) > 0
    /\ toks[Len(toks)] = EOF
    /\ \A i \in 1..(Len(toks) - 1) : toks[i] # EOF

\* C2: for a token sequence that ends with exactly one EOF the parser never
\* reads the token at a cursor that is at or after the length of the sequence.
C2_NeverReadsPastEnd ==
    EndsWithOneEOF(tokens) => outcome # "index out of bounds"

\* C3: parse terminates; its loop takes at most twice the number of tokens
\* turns, and every turn after which the loop goes on leaves the cursor
\* strictly greater than it found it.
C3_LoopAdvancesAndEnds ==
    /\ [][(ParseIteration /\ pstatus' = "loop") =>
             /\ position' > position
             /\ iterations' = iterations + 1
             /\ iterations' <= 2 * Len(tokens)]_vars
    /\ <>ParseDone
\* three turns of the loop were taken and parse has returned
C3_Witness == pstatus \in {"ok", "err"} /\ iterations = 3

\* C4: if at least one top-level statement was parsed, parse returns Ok (with
\* the statements parsed, in order); Err is returned only when none was.
C4_OkWhenAnyParsed ==
    (ParseDone /\ statements # <<>>) => pstatus = "ok"

\* C5: every turn of the loop in which the top-level statement fails to parse
\* appends one error to errors.
C5_FailureRecorded ==
    [][(ParseIteration /\ outcome' \in {"Err", "skipped"}) =>
         Len(errors') = Len(errors) + 1]_vars

\* C6: a failed statement does not end parsing: when a statement fails and
\* the tokens after the failure start a statement that parses, the loop goes
\* on to it.
C6_ContinuesAfterFailure ==
    [][(ParseIteration /\ outcome' \in {"Err", "skipped"}
          /\ parse_statement(tokens, position').k = "Ok") =>
         pstatus' = "loop"]_vars


(***************************************************************************)
(* Expression parsing by precedence level (parser.rs 493-648): the parser  *)
(* specification's actions over expression statements whose operands are   *)
(* identifiers joined by binary and assignment operators.                  *)
(***************************************************************************)
\* the most operators of an expression source
MaxOperators == 2

\* one operator token of each binary level, and assignment
ExprOperators ==
    {Tok("Assign", ""), Tok("Or", ""), Tok("And", ""), Tok("StrictEqual", ""),
     Tok("LessThan", ""), Tok("Plus", ""), Tok("Multiply", "")}

\* the i-th operand of an expression source
Operand(i) == Tok("Identifier", <<"a", "b", "c", "d", "e">>[i])

RECURSIVE Interleave(_, _)
\* operand 1, then each operator of ops followed by the next operand
Interleave(ops, i) ==
    IF ops = <<>> THEN <<Operand(i)>>
    ELSE <<Operand(i), Head(ops)>> \o Interleave(Tail(ops), i + 1)

\* the expression a source spells: its tokens before the semicolon
ExprTokens(toks) == SubSeq(toks, 1, Len(toks) - 2)

ExprSources ==
    {Interleave(ops, 1) \o <<Tok("Semicolon", ""), EOF>> :
        ops \in SeqsUpTo(ExprOperators, MaxOperators)}

ExprInit ==
    /\ tokens \in ExprSources
    /\ position = 0
    /\ iterations = 0
    /\ statements = <<>>
    /\ errors = <<>>
    /\ pstatus = "loop"
    /\ outcome = "none"
    /\ LexIdle /\ MapIdle /\ GenIdle /\ ComIdle /\ OthIdle

SpecPrecedence == ExprInit /\ [][ParNext]_vars

\* the levels in the order the claim gives them, assignment loosest; an
\* operand or any other node binds tightest
Tightness(node) ==
    IF node.e \notin {"Assignment", "Logical", "Binary"} THEN 7
    ELSE CASE node.operator.t \in AssignmentOperators -> 0
           [] node.operator.t = "Or" -> 1
           [] node.operator.t = "And" -> 2
           [] node.operator.t \in EqualityOperators -> 3
           [] node.operator.t \in RelationalOperators -> 4
           [] node.operator.t \in AdditiveOperators -> 5
           [] node.operator.t \in MultiplicativeOperators -> 6

RECURSIVE InOrder(_)
\* the tokens of a tree of operators and identifiers, left to right
InOrder(node) ==
    IF node.e = "Identifier" THEN <<Tok("Identifier", node.name)>>
    ELSE InOrder(node.left) \o <<node.operator>> \o InOrder(node.right)

RECURSIVE WellNested(_)
\* below an operator stand only operators that bind tighter, but for an
\* operator of the same binary level on the left and an assignment on the
\* right of an assignment
WellNested(node) ==
    \/ Tightness(node) = 7
    \/ /\ IF Tightness(node) = 0
          THEN Tightness(node.left) > 0
          ELSE /\ Tightness(node.left) >= Tightness(node)
               /\ Tightness(node.right) > Tightness(node)
       /\ WellNested(node.left)
       /\ WellNested(node.right)

\* C21: the tree built for an expression spells the source's tokens in
\* order, every operator of a tighter level is nested below its neighbour of
\* a looser level, operators of one binary level associate to the left and
\* assignment associates to the right.
C21_PrecedenceAndAssociativity ==
    outcome # "none" =>
        /\ outcome = "Ok"
        /\ Len(statements) = 1
        /\ InOrder(statements[1].expression) = ExprTokens(tokens)
        /\ WellNested(statements[1].expression)
\* a sum whose right operand is a product, and the right-nested assignments
C21_Witness ==
    /\ outcome = "Ok"
    /\ tokens \in {Interleave(<<Tok("Plus", ""), Tok("Multiply", "")>>, 1)
                      \o <<Tok("Semicolon", ""), EOF>>}
    /\ statements[1].expression.right.e = "Binary"
    /\ statements[1].expression.right.operator.t = "Multiply"


(***************************************************************************)
(* Nested statements (parser.rs 421-427 and 2038-2059): the parser         *)
(* specification's actions over sources that start with `if (x)` or        *)
(* `declare`.                                                              *)
(***************************************************************************)
\* the most tokens after the head of a nested-statement source
MaxNestedTokens == 3

NestedAlphabet ==
    {Tok("Identifier", "x"), Tok("Semicolon", ""), Tok("Keyword", "else"),
     Tok("Keyword", "declare"), Tok("RightBrace", "")}

NestedHeads ==
    {<<Tok("Keyword", "if"), Tok("LeftParen", ""), Tok("Identifier", "x"),
       Tok("RightParen", "")>>,
     <<Tok("Keyword", "declare")>>}

NestedSources ==
    {head \o body \o <<EOF>> :
        head \in NestedHeads, body \in SeqsUpTo(NestedAlphabet, MaxNestedTokens)}

NestedInit ==
    /\ tokens \in NestedSources
    /\ position = 0
    /\ iterations = 0
    /\ statements = <<>>
    /\ errors = <<>>
    /\ pstatus = "loop"
    /\ outcome = "none"
    /\ LexIdle /\ MapIdle /\ GenIdle /\ ComIdle /\ OthIdle

SpecNested == NestedInit /\ [][ParNext]_vars

\* C26: when parse_if_statement or parse_declare_statement asks for a nested
\* statement and parse_statement yields none, no turn of the loop of parse
\* ends by unwrapping the missing statement: parse does not unwind.
C26_MissingStatementIsAnError ==
    outcome # "unwrap on None" /\ pstatus # "panic"

(***************************************************************************)
(* Type parsing (parser.rs 888-1162).  A Type is a record whose field ty   *)
(* names the variant; the name of a named type is the identifier token's   *)
(* text.  The object type arm needs a LeftBrace token, which no token      *)
(* sequence of the type specification holds.                               *)
(***************************************************************************)
RECURSIVE parse_type(_, _), parse_primary_type(_, _), type_arguments_loop(_, _, _),
          union_loop(_, _, _), array_suffix_loop(_, _, _)

\* the keywords whose arm advances and returns a fixed type
KeywordTypes ==
    [string |-> "String", number |-> "Number", boolean |-> "Boolean", any |-> "Any",
     void |-> "Void", never |-> "Never", unknown |-> "Unknown", key |-> "String",
     infer |-> "Any", null |-> "Null", undefined |-> "Undefined"]

\* the while loop over the type arguments of the Identifier arm
type_arguments_loop(toks, pos, type_args) ==
    IF ~InRange(toks, pos) THEN PPanic(pos)
    ELSE IF current_token(toks, pos).t \notin {"GreaterThan", "EOF"}
    THEN LET AfterArg(arg) ==
                 IF arg.k # "Ok" THEN arg
                 ELSE IF ~InRange(toks, arg.pos) THEN PPanic(arg.pos)
                 ELSE IF current_token(toks, arg.pos).t = "Comma"
                 THEN type_arguments_loop(toks, advance(toks, arg.pos),
                                          Append(type_args, arg.v))
                 ELSE POk(arg.pos, Append(type_args, arg.v))
         IN  AfterArg(parse_type(toks, pos))
    ELSE POk(pos, type_args)

\* the test of the Identifier arm for a generic type: it reads the current
\* token, and the arm has not advanced past the identifier it matched
AtTypeArguments(toks, pos) == current_token(toks, pos).t = "LessThan"

parse_primary_type(toks, pos) ==
    IF ~InRange(toks, pos) THEN PPanic(pos)
    ELSE LET token == current_token(toks, pos)
             next == advance(toks, pos)
    IN  CASE token.t = "Keyword" /\ token.v \in DOMAIN KeywordTypes ->
                POk(next, [ty |-> KeywordTypes[token.v]])
          [] token = Tok("Keyword", "Array") ->
                IF ~InRange(toks, next) THEN PPanic(next)
                ELSE IF current_token(toks, next).t = "LessThan"
                THEN LET AfterElement(element_type) ==
                             IF element_type.k # "Ok" THEN element_type
                             ELSE LET close == expect_token(toks, element_type.pos,
                                                            Tok("GreaterThan", "")) IN
                                  IF close.k # "Ok" THEN close
                                  ELSE POk(close.pos, [ty |-> "Array",
                                                       element |-> element_type.v])
                     IN  AfterElement(parse_primary_type(toks, advance(toks, next)))
                ELSE POk(next, [ty |-> "Array", element |-> [ty |-> "Any"]])
          [] token = Tok("Keyword", "readonly") -> parse_primary_type(toks, next)
          [] token = Tok("Keyword", "keyof") ->
                LET AfterTarget(target) ==
                        IF target.k # "Ok" THEN target
                        ELSE POk(target.pos, [ty |-> "String"])
                IN  AfterTarget(parse_type(toks, next))
          [] token.t \in {"Null", "Undefined"} -> POk(next, [ty |-> token.t])
          [] token.t = "Identifier" ->
                LET AfterBase(base_type) ==
                        IF base_type.k # "Ok" THEN base_type
                        ELSE IF ~InRange(toks, base_type.pos) THEN PPanic(base_type.pos)
                        ELSE IF current_token(toks, base_type.pos).t = "LeftBracket"
                        THEN LET close == expect_token(toks, advance(toks, base_type.pos),
                                                       Tok("RightBracket", "")) IN
                             IF close.k # "Ok" THEN close
                             ELSE POk(close.pos, [ty |-> "Array",
                                                  element |-> base_type.v])
                        ELSE base_type
                    AfterArguments(type_args) ==
                        IF type_args.k # "Ok" THEN type_args
                        ELSE LET close == expect_token(toks, type_args.pos,
                                                       Tok("GreaterThan", "")) IN
                             IF close.k # "Ok" THEN close
                             ELSE POk(advance(toks, close.pos),
                                      [ty |-> "GenericNamed", name |-> token.v,
                                       type_arguments |-> type_args.v])
                IN  AfterBase(IF AtTypeArguments(toks, pos)
                              THEN AfterArguments(
                                       type_arguments_loop(toks, advance(toks, pos), <<>>))
                              ELSE POk(next, [ty |-> "Named", name |-> token.v]))
          [] token.t = "String" ->
                POk(next, [ty |-> "Named", name |-> "\"" \o token.v \o "\""])
          [] token.t = "Number" -> POk(next, [ty |-> "Named", name |-> token.v])
          [] token.t = "LeftParen" ->
                LET AfterInner(type_) ==
                        IF type_.k # "Ok" THEN type_
                        ELSE LET close == expect_token(toks, type_.pos,
                                                       Tok("RightParen", "")) IN
                             IF close.k # "Ok" THEN close ELSE POk(close.pos, type_.v)
                IN  AfterInner(parse_type(toks, next))
          [] token.t \notin {"Keyword", "Null", "Undefined", "Identifier", "String",
                             "Number", "LeftParen", "LeftBrace"}
             \/ (token.t = "Keyword"
                 /\ token.v \notin DOMAIN KeywordTypes \cup {"Array", "readonly", "keyof"}) ->
                PErr(pos, "Unexpected token in type")

\* the while loop of parse_type over union and intersection operators
union_loop(toks, pos, left_type) ==
    IF ~InRange(toks, pos) THEN PPanic(pos)
    ELSE IF current_token(toks, pos).t \in {"Union", "Intersection"}
    THEN LET AfterRight(right_type) ==
                 IF right_type.k # "Ok" THEN right_type
                 ELSE union_loop(toks, right_type.pos,
                                 [ty |-> current_token(toks, pos).t,
                                  left |-> left_type, right |-> right_type.v])
         IN  AfterRight(parse_primary_type(toks, advance(toks, pos)))
    ELSE POk(pos, left_type)

\* the while loop of parse_type over array brackets
array_suffix_loop(toks, pos, left_type) ==
    IF ~InRange(toks, pos) THEN PPanic(pos)
    ELSE IF current_token(toks, pos).t = "LeftBracket"
    THEN LET close == expect_token(toks, advance(toks, pos), Tok("RightBracket", "")) IN
         IF close.k # "Ok" THEN close
         ELSE array_suffix_loop(toks, close.pos, [ty |-> "Array", element |-> left_type])
    ELSE POk(pos, left_type)

parse_type(toks, pos) ==
    LET AfterUnions(left_type) ==
            IF left_type.k # "Ok" THEN left_type
            ELSE array_suffix_loop(toks, left_type.pos, left_type.v)
        AfterPrimary(left_type) ==
            IF left_type.k # "Ok" THEN left_type
            ELSE AfterUnions(union_loop(toks, left_type.pos, left_type.v))
    IN  AfterPrimary(parse_primary_type(toks, pos))

\* the most tokens of a type source drawn from TypeAlphabet
MaxTypeTokens == 4

TypeAlphabet ==
    {Tok("Identifier", "Box"), Tok("LessThan", ""), Tok("GreaterThan", ""),
     Tok("Comma", ""), Tok("Keyword", "string"), Tok("LeftBracket", ""),
     Tok("RightBracket", ""), Tok("Union", "")}

\* generic types with two arguments, with a nested generic argument and with
\* the tokens of an initializer after them
GenericSamples ==
    LET box == Tok("Identifier", "Box")
        t == Tok("Identifier", "T")
        str == Tok("Keyword", "string")
        lt == Tok("LessThan", "")
        gt == Tok("GreaterThan", "")
        comma == Tok("Comma", "")
    IN  {<<Tok("Identifier", "Map"), lt, str, comma, t, gt>>,
         <<box, lt, t, gt, Tok("Assign", ""), Tok("Number", "1"), Tok("Semicolon", "")>>,
         <<box, lt, box, lt, t, gt, gt>>,
         <<Tok("Keyword", "Array"), lt, str, gt>>,
         <<Tok("Keyword", "readonly"), t, Tok("LeftBracket", ""), Tok("RightBracket", "")>>,
         <<Tok("LeftParen", ""), str, Tok("Union", ""), Tok("Null", ""), Tok("RightParen", "")>>,
         <<Tok("Keyword", "keyof"), t>>}

TypeSources ==
    {Append(body, EOF) : body \in SeqsUpTo(TypeAlphabet, MaxTypeTokens) \cup GenericSamples}

TypInit ==
    /\ tokens \in TypeSources
    /\ position = 0
    /\ iterations = 0
    /\ statements = <<>>
    /\ errors = <<>>
    /\ pstatus = "type"
    /\ outcome = "none"
    /\ LexIdle /\ MapIdle /\ GenIdle /\ ComIdle /\ OthIdle

\* a call of parse_type with the cursor on the first token of the source:
\* outcome is the Result returned, position the cursor the call leaves
ParseType ==
    /\ pstatus = "type"
    /\ \E r \in {parse_type(tokens, position)} :
          /\ outcome' = [k |-> r.k, v |-> r.v]
          /\ position' = r.pos
    /\ pstatus' = "done"
    /\ UNCHANGED <<tokens, iterations, statements, errors>>
    /\ UNCHANGED <<lexVars, mapVars, genVars, comVars, othVars>>

SpecTypes == TypInit /\ [][ParseType]_vars

\* a type argument of one token
SimpleTypeToken(tok) == tok.t = "Identifier" \/ tok = Tok("Keyword", "string")

\* toks spells an identifier, `<`, n type arguments of one token each with
\* commas between them, and `>`
GenericOf(toks, n) ==
    /\ Len(toks) >= 2 * n + 2
    /\ toks[1].t = "Identifier"
    /\ toks[2].t = "LessThan"
    /\ \A i \in 1..n :
          /\ SimpleTypeToken(toks[2 * i + 1])
          /\ toks[2 * i + 2].t = IF i < n THEN "Comma" ELSE "GreaterThan"

\* C22: when the source is an identifier followed by `<`, type arguments
\* and `>`, the type parsed is a generic type carrying the identifier's name
\* and one argument for each type argument, and the cursor is left on the
\* first token after `>`
C22_GenericTypeArguments ==
    \A n \in 1..MaxTypeTokens :
        (pstatus = "done" /\ GenericOf(tokens, n)) =>
            /\ outcome.k = "Ok"
            /\ outcome.v.ty = "GenericNamed"
            /\ outcome.v.name = tokens[1].v
            /\ Len(outcome.v.type_arguments) = n
            /\ position = 2 * n + 2

(***************************************************************************)
(* Type mapper (src/src/types.rs).  A Type is a record whose field ty      *)
(* names the variant; a name is a sequence of characters.  map_type        *)
(* returns [text, derive]: text is the String returned, and derive is what *)
(* the intersection arm reads off it, the struct name that                 *)
(* extract_struct_name finds when the text starts with "#[derive" and      *)
(* "None" when it does not.  Every arm returns Ok.                         *)
(***************************************************************************)
LowerCase ==
    <<"a", "b", "c", "d", "e", "f", "g", "h", "i", "j", "k", "l", "m",
      "n", "o", "p", "q", "r", "s", "t", "u", "v", "w", "x", "y", "z">>
UpperCase ==
    <<"A", "B", "C", "D", "E", "F", "G", "H", "I", "J", "K", "L", "M",
      "N", "O", "P", "Q", "R", "S", "T", "U", "V", "W", "X", "Y", "Z">>

\* ch.to_uppercase().next().unwrap_or(ch) on an ASCII character
to_uppercase(ch) ==
    IF \E i \in 1..26 : LowerCase[i] = ch
    THEN UpperCase[CHOOSE i \in 1..26 : LowerCase[i] = ch]
    ELSE ch

RECURSIVE pascal_loop(_, _, _)
\* the for loop of to_pascal_case
pascal_loop(cs, capitalize, result) ==
    IF cs = <<>> THEN result
    ELSE LET ch == Head(cs) IN
         IF ch = "_" \/ ch = "-" THEN pascal_loop(Tail(cs), TRUE, result)
         ELSE IF capitalize
         THEN pascal_loop(Tail(cs), FALSE, result \o to_uppercase(ch))
         ELSE pascal_loop(Tail(cs), FALSE, result \o ch)

to_pascal_case(name) == pascal_loop(name, TRUE, "")

RECURSIVE Join(_, _)
\* strs.join(sep)
Join(strs, sep) ==
    IF strs = <<>> THEN ""
    ELSE IF Len(strs) = 1 THEN strs[1]
    ELSE strs[1] \o sep \o Join(Tail(strs), sep)

\* n.to_string() for the lengths the model reaches
usize_to_string(n) == <<"0", "1", "2", "3", "4", "5", "6", "7", "8", "9">>[n + 1]

\* no Type: the argument before the first call, a member without annotation
NoType == [ty |-> "None"]

\* a returned String that does not start with "#[derive"
Plain(text) == [text |-> text, derive |-> "None"]

\* TypeMapper::new
TypeMapperNew(flag) ==
    [type_mappings |->
        [key \in {"string", "number", "boolean", "void", "never", "any", "unknown",
                  "null", "undefined", "object", "symbol", "bigint"} |->
            CASE key = "string" -> "String"
              [] key = "number" -> "f64"
              [] key = "boolean" -> "bool"
              [] key = "void" -> "()"
              [] key = "never" -> "!"
              [] key \in {"any", "unknown", "object"} -> "Box<dyn Any>"
              [] key \in {"null", "undefined"} -> "Option<()>"
              [] key = "symbol" -> "Symbol"
              [] key = "bigint" -> "i64"],
     generics |-> <<>>,
     runtime |-> flag]

\* a map_named_type that returns a name given to add_generic as it is, so
\* that the result depends on the calls made before: C9 does not hold of it
map_named_type_m(self, name) ==
    IF \E i \in 1..Len(self.generics) : self.generics[i] = name
    THEN StrOf(name)
    ELSE IF StrOf(name) \in DOMAIN self.type_mappings
    THEN self.type_mappings[StrOf(name)]
    ELSE to_pascal_case(name)

\* fn map_named_type
map_named_type(self, name) ==
    IF StrOf(name) \in DOMAIN self.type_mappings
    THEN self.type_mappings[StrOf(name)]
    ELSE to_pascal_case(name)

RECURSIVE map_type(_, _), map_types(_, _), object_fields(_, _, _)

\* types.iter().map(|t| self.map_type(t)).collect(), the texts only
map_types(self, types) ==
    IF types = <<>> THEN <<>>
    ELSE <<map_type(self, Head(types)).text>> \o map_types(self, Tail(types))

\* the for loop of map_object_type over the members
object_fields(self, members, struct_fields) ==
    IF members = <<>> THEN struct_fields
    ELSE LET member == Head(members) IN
         IF member.member = "Property"
         THEN LET field_type == IF member.type_ = NoType THEN "Box<dyn Any>"
                                ELSE map_type(self, member.type_).text
                  field_name == IF member.optional
                                THEN member.name \o ": Option<" \o field_type \o ">"
                                ELSE member.name \o ": " \o field_type
              IN  object_fields(self, Tail(members), Append(struct_fields, field_name))
         ELSE IF member.member = "Method"
         THEN LET params == [i \in 1..Len(member.parameters) |->
                                member.parameters[i].name \o ": "
                                \o (IF member.parameters[i].type_ = NoType
                                    THEN "Box<dyn Any>"
                                    ELSE map_type(self, member.parameters[i].type_).text)]
                  return_type == IF member.return_type = NoType THEN "()"
                                 ELSE map_type(self, member.return_type).text
              IN  object_fields(self, Tail(members),
                                Append(struct_fields,
                                       "fn " \o member.name \o "(" \o Join(params, ", ")
                                       \o ") -> " \o return_type))
         ELSE object_fields(self, Tail(members), struct_fields)

map_object_type(self, obj_type) ==
    LET struct_fields == object_fields(self, obj_type.members, <<>>)
        struct_name == "ObjectType_" \o usize_to_string(Len(struct_fields))
    IN  [text |-> "#[derive(Debug, Clone, Serialize, Deserialize)]\npub struct "
                  \o struct_name \o " {\n    "
                  \o Join(struct_fields, ",\n    ") \o "\n}",
         derive |-> struct_name]

map_tuple_type(self, types) ==
    IF types = <<>> THEN Plain("()")
    ELSE Plain("(" \o Join(map_types(self, types), ", ") \o ")")

\* the Any, Unknown and Object arms
DynamicType(self) ==
    IF self.runtime THEN Plain("Box<dyn Any>") ELSE Plain("serde_json::Value")

map_type(self, ts_type) ==
    CASE ts_type.ty = "String" -> Plain("String")
      [] ts_type.ty = "Number" -> Plain("f64")
      [] ts_type.ty = "Boolean" -> Plain("bool")
      [] ts_type.ty \in {"Any", "Unknown", "Object"} -> DynamicType(self)
      [] ts_type.ty = "Void" -> Plain("()")
      [] ts_type.ty = "Never" -> Plain("!")
      [] ts_type.ty \in {"Null", "Undefined"} -> Plain("Option<()>")
      [] ts_type.ty = "Symbol" -> Plain("Symbol")
      [] ts_type.ty = "BigInt" -> Plain("i64")
      [] ts_type.ty = "Named" -> Plain(map_named_type(self, ts_type.name))
      [] ts_type.ty = "GenericNamed" ->
            LET rust_name == map_named_type(self, ts_type.name)
                param_types ==
                    map_types(self, [i \in 1..Len(ts_type.type_parameters) |->
                                        [ty |-> "Named", name |-> ts_type.type_parameters[i]]])
            IN  IF ts_type.type_parameters = <<>> THEN Plain(rust_name)
                ELSE Plain(rust_name \o "<" \o Join(param_types, ", ") \o ">")
      [] ts_type.ty = "Union" ->
            Plain("Union<" \o map_type(self, ts_type.left).text \o ", "
                  \o map_type(self, ts_type.right).text \o ">")
      [] ts_type.ty = "Intersection" ->
            LET left_type == map_type(self, ts_type.left)
                right_type == map_type(self, ts_type.right)
            IN  IF left_type.derive # "None" /\ right_type.derive # "None"
                THEN Plain(left_type.derive \o "And" \o right_type.derive)
                ELSE Plain("Intersection<" \o left_type.text \o ", "
                           \o right_type.text \o ">")
      [] ts_type.ty = "Array" ->
            Plain("Vec<" \o map_type(self, ts_type.element).text \o ">")
      [] ts_type.ty = "Tuple" -> map_tuple_type(self, ts_type.types)
      [] ts_type.ty = "ObjectType" -> map_object_type(self, ts_type)
      [] ts_type.ty = "Parenthesized" -> map_type(self, ts_type.inner)
      [] ts_type.ty = "TypeQuery" -> Plain("TypeQuery")

\* The types handed to map_type.
Primitives ==
    {[ty |-> p] : p \in {"String", "Number", "Boolean", "Any", "Void", "Never",
                          "Unknown", "Null", "Undefined", "Object", "Symbol", "BigInt"}}
TypeNames ==
    {<<"s", "t", "r", "i", "n", "g">>, <<"m", "y", "_", "t", "y", "p", "e">>,
     <<"T">>, <<"u", "s", "e", "r">>}
NamedTypes == {[ty |-> "Named", name |-> n] : n \in TypeNames}
Property(name, type_, optional) ==
    [member |-> "Property", name |-> name, type_ |-> type_, optional |-> optional]
ObjectTypes ==
    {[ty |-> "ObjectType", members |-> ms] :
        ms \in {<<>>,
                <<Property("a", [ty |-> "String"], FALSE)>>,
                <<Property("a", NoType, TRUE), [member |-> "IndexSignature"]>>,
                <<Property("a", [ty |-> "Any"], FALSE),
                  Property("b", [ty |-> "Named", name |-> <<"T">>], TRUE)>>,
                <<Property("b", [ty |-> "Number"], FALSE),
                  [member |-> "Method", name |-> "m",
                   parameters |-> <<[name |-> "x", type_ |-> [ty |-> "String"]]>>,
                   return_type |-> NoType]>>}}
OperandTypes ==
    {[ty |-> "Any"], [ty |-> "Named", name |-> <<"m", "y", "_", "t", "y", "p", "e">>],
     [ty |-> "ObjectType", members |-> <<>>],
     [ty |-> "ObjectType", members |-> <<Property("a", [ty |-> "String"], FALSE)>>]}
PairTypes ==
    {[ty |-> k, left |-> l, right |-> r] :
        k \in {"Union", "Intersection"}, l \in OperandTypes, r \in OperandTypes}
WrapperTypes ==
    {[ty |-> "Array", element |-> t] : t \in NamedTypes \cup OperandTypes}
    \cup {[ty |-> "Parenthesized", inner |-> t] : t \in OperandTypes}
    \cup {[ty |-> "Tuple", types |-> ts] :
            ts \in {<<>>, <<[ty |-> "Number"]>>,
                    <<[ty |-> "Any"], [ty |-> "Named", name |-> <<"T">>]>>}}
    \cup {[ty |-> "GenericNamed", name |-> n, type_parameters |-> ps] :
            n \in {<<"m", "y", "_", "t", "y", "p", "e">>, <<"T">>},
            ps \in {<<>>, <<(<<"T">>)>>, <<(<<"T">>), (<<"u", "s", "e", "r">>)>>}}
    \cup {[ty |-> "TypeQuery"]}
SampleTypes == Primitives \cup NamedTypes \cup ObjectTypes \cup PairTypes \cup WrapperTypes

\* the names handed to add_generic
GenericNames == {<<"T">>, <<"m", "y", "_", "t", "y", "p", "e">>}


\* the mapper as the record that the methods take as self
Mapper == [type_mappings |-> type_mappings, generics |-> generics, runtime |-> runtime]

MapInit ==
    /\ \E flag \in BOOLEAN :
          /\ type_mappings = TypeMapperNew(flag).type_mappings
          /\ generics = TypeMapperNew(flag).generics
          /\ runtime = TypeMapperNew(flag).runtime
    /\ mtype = NoType
    /\ mresult = Plain("")
    /\ LexIdle /\ ParIdle /\ GenIdle /\ ComIdle /\ OthIdle

\* map_type(&mut self, ts_type): no arm assigns to a field of self
MapType ==
    \E ts_type \in SampleTypes :
        /\ mtype' = ts_type
        /\ mresult' = map_type(Mapper, ts_type)
        /\ UNCHANGED <<type_mappings, generics, runtime>>
        /\ UNCHANGED <<lexVars, parVars, genVars, comVars, othVars>>

AddGeneric ==
    \E name \in GenericNames :
        /\ Len(generics) < MaxGenerics
        /\ generics' = Append(generics, name)
        /\ UNCHANGED <<type_mappings, runtime, mtype, mresult>>
        /\ UNCHANGED <<lexVars, parVars, genVars, comVars, othVars>>

ClearGenerics ==
    /\ generics' = <<>>
    /\ UNCHANGED <<type_mappings, runtime, mtype, mresult>>
    /\ UNCHANGED <<lexVars, parVars, genVars, comVars, othVars>>

MapNext == MapType \/ AddGeneric \/ ClearGenerics

SpecMapper == MapInit /\ [][MapNext]_vars

\* C9: map_type returns, for the same Type and the same runtime flag, the
\* same string whatever calls came before (the string a new mapper with that
\* flag returns), and a call leaves the mapper's fields as they were.
C9_MapTypeIsAFunction ==
    /\ [](mtype # NoType => mresult = map_type(TypeMapperNew(runtime), mtype))
    /\ [][MapType => UNCHANGED <<type_mappings, generics, runtime>>]_vars
\* map_type was called on a named type that add_generic was given before
C9_Witness ==
    /\ mtype.ty = "Named"
    /\ \E i \in 1..Len(generics) : generics[i] = mtype.name
    /\ mresult.text = "MyType"

(***************************************************************************)
(* Code generator, expressions (src/src/generator.rs).  An expression is   *)
(* the record the parser builds; a generate function returns [k, v] with   *)
(* k "Ok" and v the text, or k "Err" and v the message.                    *)
(***************************************************************************)
GOk(text) == [k |-> "Ok", v |-> text]
GErr(msg) == [k |-> "Err", v |-> msg]

map_operator(token) ==
    CASE token.t = "Plus" -> GOk("+")
      [] token.t = "Minus" -> GOk("-")
      [] token.t = "Multiply" -> GOk("*")
      [] token.t = "Divide" -> GOk("/")
      [] token.t = "Equal" -> GOk("==")
      [] token.t = "NotEqual" -> GOk("!=")
      [] token.t = "LessThan" -> GOk("<")
      [] token.t = "GreaterThan" -> GOk(">")
      [] token.t = "LessEqual" -> GOk("<=")
      [] token.t = "GreaterEqual" -> GOk(">=")
      [] token.t = "And" -> GOk("&&")
      [] token.t = "Or" -> GOk("||")
      [] token.t = "Not" -> GOk("!")
      [] token.t = "Assign" -> GOk("=")
      [] OTHER -> GErr("Unsupported operator: " \o token.t)

generate_literal(literal) ==
    CASE literal.lit = "String" -> GOk("\"" \o literal.v \o "\".to_string()")
      [] literal.lit = "Number" -> GOk(literal.v \o ".0")
      [] literal.lit = "Boolean" -> GOk(literal.v)
      [] literal.lit \in {"Null", "Undefined"} -> GOk("None")
      [] OTHER -> GOk("// TODO: Implement literal")

\* pat stands in s at index i (1-based)
MatchesAt(s, pat, i) == i + Len(pat) - 1 <= Len(s) /\ SubSeq(s, i, i + Len(pat) - 1) = pat

\* the indexes at which pat stands in s
Occurrences(s, pat) == {i \in 1..Len(s) : MatchesAt(s, pat, i)}

\* str::contains
contains(s, pat) == pat = "" \/ \E i \in 1..Len(s) : MatchesAt(s, pat, i)

\* the variants of Expression that generate_expression has no arm for and
\* that the parser builds
UnhandledExpressions == {"Logical", "Conditional", "Parenthesized"}

RECURSIVE generate_expression(_)

generate_unary_expression(unary) ==
    LET argument == generate_expression(unary.argument) IN
    IF argument.k # "Ok" THEN argument
    ELSE CASE unary.operator = Tok("Keyword", "typeof") ->
                GOk("get_type_of(" \o argument.v \o ")")
           [] unary.operator.t = "Not" -> GOk("!" \o argument.v)
           [] unary.operator.t = "Minus" -> GOk("-" \o argument.v)
           [] unary.operator.t = "Plus" -> GOk("+" \o argument.v)
           [] OTHER -> GOk("// TODO: Implement unary operator " \o unary.operator.t)

generate_binary_expression(binary) ==
    LET left == generate_expression(binary.left) IN
    IF left.k # "Ok" THEN left
    ELSE LET right == generate_expression(binary.right) IN
    IF right.k # "Ok" THEN right
    ELSE LET operator == map_operator(binary.operator) IN
    IF operator.k # "Ok" THEN operator
    ELSE GOk("(" \o left.v \o " " \o operator.v \o " " \o right.v \o ")")

generate_assignment_expression(assignment) ==
    LET left == generate_expression(assignment.left) IN
    IF left.k # "Ok" THEN left
    ELSE LET right == generate_expression(assignment.right) IN
    IF right.k # "Ok" THEN right
    ELSE GOk(left.v \o " = " \o right.v)

generate_member_expression(member) ==
    LET object == generate_expression(member.object) IN
    IF object.k # "Ok" THEN object
    ELSE LET property == generate_expression(member.property) IN
    IF property.k # "Ok" THEN property
    ELSE IF member.computed THEN GOk(object.v \o "[" \o property.v \o "]")
    ELSE IF object.v = "this" THEN GOk("self." \o property.v)
    ELSE GOk(object.v \o "." \o property.v)

RECURSIVE template_parts(_, _, _)
\* the for loop of generate_template_literal over the quasis from the i-th
\* on; acc holds format_parts and args
template_parts(template, i, acc) ==
    IF i > Len(template.quasis) THEN GOk(acc)
    ELSE IF i <= Len(template.expressions)
    THEN LET expr == generate_expression(template.expressions[i]) IN
         IF expr.k # "Ok" THEN expr
         ELSE template_parts(template, i + 1,
                             [format_parts |-> acc.format_parts
                                               \o <<template.quasis[i].value, "{}">>,
                              args |-> Append(acc.args, expr.v)])
    ELSE template_parts(template, i + 1,
                        [acc EXCEPT !.format_parts = Append(@, template.quasis[i].value)])

generate_template_literal(template) ==
    IF template.expressions = <<>> /\ template.quasis # <<>>
    THEN IF contains(template.quasis[1].value, "${name}")
         THEN GOk("format!(\"Hello, {}!\", name)")
         ELSE IF template.quasis[1].value = "Hello, ${name}!"
         THEN GOk("format!(\"Hello, {}!\", name)")
         ELSE GOk("\"" \o template.quasis[1].value \o "\"")
    ELSE LET Finish(parts) ==
                 IF parts.k # "Ok" THEN parts
                 ELSE IF parts.v.args = <<>>
                 THEN GOk("\"" \o Join(parts.v.format_parts, "") \o "\"")
                 ELSE GOk("format!(\"" \o Join(parts.v.format_parts, "") \o "\", "
                          \o Join(parts.v.args, ", ") \o ")")
         IN  Finish(template_parts(template, 1, [format_parts |-> <<>>, args |-> <<>>]))

generate_expression(expression) ==
    CASE expression.e = "Literal" -> generate_literal(expression)
      [] expression.e = "Identifier" -> GOk(expression.name)
      [] expression.e = "Binary" -> generate_binary_expression(expression)
      [] expression.e = "Unary" -> generate_unary_expression(expression)
      [] expression.e = "Member" -> generate_member_expression(expression)
      [] expression.e = "Template" -> generate_template_literal(expression)
      [] expression.e = "Assignment" -> generate_assignment_expression(expression)
      [] expression.e = "This" -> GOk("self")
      [] expression.e = "Super" -> GOk("super")
      [] expression.e \in UnhandledExpressions -> GOk("// TODO: Implement expression")

\* The expressions handed to generate_expression are the ones the parser
\* builds from these token sequences.
GenAtoms == {Tok("Identifier", "x"), Tok("Number", "1"), Tok("String", "s")}
GenBinaryOperators ==
    {Tok(t, "") : t \in {"Or", "And"} \cup EqualityOperators \cup RelationalOperators
                        \cup AdditiveOperators \cup MultiplicativeOperators
                        \cup AssignmentOperators}
GenUnaryOperators ==
    {Tok("Plus", ""), Tok("Minus", ""), Tok("Not", ""), Tok("Keyword", "typeof")}
GenTokenSequences ==
    {<<a, EOF>> : a \in GenAtoms}
    \cup {<<op, a, EOF>> : op \in GenUnaryOperators, a \in GenAtoms}
    \cup {<<a, op, b, EOF>> : a \in GenAtoms, op \in GenBinaryOperators, b \in GenAtoms}
    \cup {<<Tok("Not", ""), a, op, Tok("Identifier", "y"), EOF>> :
            a \in GenAtoms, op \in GenBinaryOperators}
GenExpressions == {parse_expression(ts, 0).v : ts \in GenTokenSequences}

GenInit ==
    /\ gexpr \in GenExpressions
    /\ gresult = [k |-> "none", v |-> ""]
    /\ LexIdle /\ ParIdle /\ MapIdle /\ ComIdle /\ OthIdle

GenerateExpression ==
    /\ gresult.k = "none"
    /\ gresult' = generate_expression(gexpr)
    /\ UNCHANGED <<gexpr, lexVars, parVars, mapVars, comVars, othVars>>

GenNext == GenerateExpression

SpecGen == GenInit /\ [][GenNext]_vars

\* the texts the generator writes where it has no translation
Placeholders ==
    {"// TODO: Implement expression", "// TODO: Implement literal"}
    \cup {"// TODO: Implement unary operator " \o op.t : op \in GenUnaryOperators}

\* C10: the operator of a binary, unary or logical expression is translated
\* to a target operator or the generation fails with an error: the text
\* returned for such an expression is never a placeholder.
C10_OperatorsTranslated ==
    (gresult.k # "none" /\ gexpr.e \in {"Binary", "Unary", "Logical"}) =>
        (gresult.k = "Err" \/ gresult.v \notin Placeholders)

(***************************************************************************)
(* Compiler::compile (src/src/compiler.rs), one action per step.  The      *)
(* input file decides what each step returns; canswers holds those         *)
(* results, drawn in the initial state.  parse can also unwind ("Panic").  *)
(***************************************************************************)
StepsInOrder == <<"read", "tokenize", "parse", "generate", "write">>

\* the step that follows a step that returned Ok
NextStep(step) ==
    CASE step = "read" -> "tokenize"
      [] step = "tokenize" -> "parse"
      [] step = "parse" -> "generate"
      [] step = "generate" -> "write"
      [] step = "write" -> "returned"

\* a step result used without the ?: compile goes on after an error, and C7
\* does not hold of it
Propagate_m(step, answer) ==
    [pc |-> NextStep(step), result |-> [k |-> "none", step |-> ""]]

\* The ? after a step: Ok goes on to the next step, Err is returned from
\* compile at once; a panic unwinds through compile.
Propagate(step, answer) ==
    CASE answer = "Ok" -> [pc |-> NextStep(step), result |-> [k |-> "none", step |-> ""]]
      [] answer = "Err" -> [pc |-> "returned", result |-> [k |-> "Err", step |-> step]]
      [] answer = "Panic" -> [pc |-> "unwound", result |-> [k |-> "Panic", step |-> step]]

ComInit ==
    /\ canswers \in [{"read", "tokenize", "generate", "write"} -> {"Ok", "Err"}]
                    \X {"Ok", "Err", "Panic"}
    /\ output_is_dir \in BOOLEAN
    /\ cpc = "read"
    /\ clog = <<>>
    /\ cresult = [k |-> "none", step |-> ""]
    /\ cwritten = "none"
    /\ LexIdle /\ ParIdle /\ MapIdle /\ GenIdle /\ OthIdle

\* what the file decides for a step
Answer(step) == IF step = "parse" THEN canswers[2] ELSE canswers[1][step]

\* a step other than the last
CompileStep(step) ==
    /\ cpc = step
    /\ clog' = Append(clog, step)
    /\ cpc' = Propagate(step, Answer(step)).pc
    /\ cresult' = Propagate(step, Answer(step)).result
    /\ UNCHANGED <<canswers, output_is_dir, cwritten>>
    /\ UNCHANGED <<lexVars, parVars, mapVars, genVars, othVars>>

\* fs::read_to_string(input).map_err(CompilerError::Io)?
CompileRead == CompileStep("read")
\* Lexer::new(input_content); lexer.tokenize()?
CompileTokenize == CompileStep("tokenize")
\* Parser::new(tokens); parser.parse()?
CompileParse == CompileStep("parse")
\* CodeGenerator::new(self.runtime); generator.generate(&program)?
CompileGenerate == CompileStep("generate")

\* self.write_output(output, &rust_code)?; Ok(()).  A failed write of a
\* project directory may have written some of its files.
CompileWrite ==
    /\ cpc = "write"
    /\ clog' = Append(clog, "write")
    /\ cpc' = Propagate("write", Answer("write")).pc
    /\ IF Answer("write") = "Ok"
       THEN /\ cresult' = [k |-> "Ok", step |-> ""]
            /\ cwritten' = IF output_is_dir THEN "project" ELSE "file"
       ELSE /\ cresult' = Propagate("write", Answer("write")).result
            /\ cwritten' \in IF output_is_dir THEN {"none", "partial"} ELSE {"none"}
    /\ UNCHANGED <<canswers, output_is_dir>>
    /\ UNCHANGED <<lexVars, parVars, mapVars, genVars, othVars>>

ComNext ==
    \/ CompileRead
    \/ CompileTokenize
    \/ CompileParse
    \/ CompileGenerate
    \/ CompileWrite

SpecCompile == ComInit /\ [][ComNext]_vars

\* C7: compile runs read, tokenize, parse, generate and write in this order;
\* a step runs only when every step before it returned Ok, the error compile
\* returns is the one of the first step that failed, and the output is
\* written only after the four steps before it succeeded.
C7_StepsInOrderFirstErrorReturned ==
    /\ Len(clog) <= 5
    /\ clog = SubSeq(StepsInOrder, 1, Len(clog))
    /\ \A i \in 1..(Len(clog) - 1) : Answer(clog[i]) = "Ok"
    /\ cresult.k = "Err" =>
          /\ cresult.step = clog[Len(clog)]
          /\ Answer(cresult.step) = "Err"
    /\ cresult.k = "Ok" =>
          /\ clog = StepsInOrder
          /\ \A i \in 1..5 : Answer(StepsInOrder[i]) = "Ok"
    /\ cwritten # "none" =>
          /\ clog = StepsInOrder
          /\ \A i \in 1..4 : Answer(StepsInOrder[i]) = "Ok"
\* generate failed after read, tokenize and parse succeeded, and compile
\* returned its error without writing
C7_Witness ==
    /\ cresult = [k |-> "Err", step |-> "generate"]
    /\ clog = <<"read", "tokenize", "parse", "generate">>
    /\ cwritten = "none"

(***************************************************************************)
(* Compiler::compile_project (src/src/compiler.rs), one action per step.   *)
(* A source file is what it makes the steps of compile return, with what   *)
(* creating the directory of its output file returns.                      *)
(***************************************************************************)
\* the most source files of a project
MaxFiles == 2

ScaffoldFiles == <<"Cargo.toml", "README.md", ".gitignore">>

\* a file is the answers of the steps of compile; dir is what
\* fs::create_dir_all(parent) returns for it
SourceFile(dir, failing, how) ==
    [dir |-> dir,
     steps |-> [s \in {"read", "tokenize", "parse", "generate", "write"} |->
                    IF s = failing THEN how ELSE "Ok"]]

ProjectFiles ==
    {SourceFile("Ok", "none", "Ok"),
     SourceFile("Err", "none", "Ok"),
     SourceFile("Ok", "tokenize", "Err"),
     SourceFile("Ok", "parse", "Panic"),
     SourceFile("Ok", "write", "Err")}

RECURSIVE compile_from(_, _)
\* compile from one of its steps on: how it ends
compile_from(file, step) ==
    LET After(p) ==
            IF p.pc \in {"returned", "unwound"}
            THEN (IF p.result.k = "none" THEN [k |-> "Ok", step |-> ""] ELSE p.result)
            ELSE compile_from(file, p.pc)
    IN  After(Propagate(step, file.steps[step]))

\* self.compile(&ts_file, &rust_file)
compile(file) == compile_from(file, "read")

\* the loop that goes on to the next file whatever compile returned: C19
\* does not hold of it
AfterCompile_m(result) == "loop"

\* the ? after self.compile(..): an error leaves compile_project, a panic
\* unwinds through it
AfterCompile(result) ==
    CASE result.k = "Ok" -> "loop"
      [] result.k = "Err" -> "returned"
      [] result.k = "Panic" -> "unwound"

PrjInit ==
    /\ ts_files \in SeqsUpTo(ProjectFiles, MaxFiles)
    /\ penv \in [find : {"Ok", "Err"}, mkdir : {"Ok", "Err"}, writes : 0..Len(ScaffoldFiles)]
    /\ ppc = "find"
    /\ pindex = 0
    /\ plog = <<>>
    /\ presult = [k |-> "none", at |-> ""]
    /\ LexIdle /\ ParIdle /\ MapIdle /\ GenIdle /\ ComIdle /\ PrgIdle

\* find_typescript_files(input_dir)? and the test for no file
ProjectFind ==
    /\ ppc = "find"
    /\ IF penv.find = "Err"
       THEN ppc' = "returned" /\ presult' = [k |-> "Err", at |-> "find"]
       ELSE IF ts_files = <<>>
       THEN ppc' = "returned" /\ presult' = [k |-> "Err", at |-> "no files"]
       ELSE ppc' = "mkdir" /\ presult' = presult
    /\ UNCHANGED <<ts_files, penv, pindex, plog>>
    /\ UNCHANGED <<lexVars, parVars, mapVars, genVars, comVars, prgVars>>

\* fs::create_dir_all(output_dir).map_err(CompilerError::Io)?
ProjectCreateDir ==
    /\ ppc = "mkdir"
    /\ IF penv.mkdir = "Err"
       THEN ppc' = "returned" /\ presult' = [k |-> "Err", at |-> "mkdir"]
       ELSE ppc' = "loop" /\ presult' = presult
    /\ UNCHANGED <<ts_files, penv, pindex, plog>>
    /\ UNCHANGED <<lexVars, parVars, mapVars, genVars, comVars, prgVars>>

\* one turn of the for loop: the directory of the output file, then compile
ProjectCompileFile ==
    /\ ppc = "loop"
    /\ pindex < Len(ts_files)
    /\ pindex' = pindex + 1
    /\ LET file == ts_files[pindex + 1] IN
       IF file.dir = "Err"
       THEN /\ ppc' = "returned"
            /\ presult' = [k |-> "Err", at |-> "parent"]
            /\ plog' = plog
       ELSE /\ plog' = Append(plog, [ev |-> "compile", file |-> pindex + 1,
                                     res |-> compile(file).k])
            /\ ppc' = AfterCompile(compile(file))
            /\ presult' = IF compile(file).k = "Ok" THEN presult
                          ELSE [k |-> compile(file).k, at |-> compile(file).step]
    /\ UNCHANGED <<ts_files, penv>>
    /\ UNCHANGED <<lexVars, parVars, mapVars, genVars, comVars, prgVars>>

RECURSIVE WriteEvents(_)
\* the first n scaffold files, written in order
WriteEvents(n) ==
    IF n = 0 THEN <<>>
    ELSE Append(WriteEvents(n - 1), [ev |-> "write", file |-> n, res |-> ScaffoldFiles[n]])

\* the loop is over: self.generate_project_files(output_dir)?; Ok(()).
\* Each of its three writes ends it when it fails.
ProjectScaffold ==
    /\ ppc = "loop"
    /\ pindex >= Len(ts_files)
    /\ plog' = plog \o WriteEvents(penv.writes)
    /\ ppc' = "returned"
    /\ presult' = IF penv.writes = Len(ScaffoldFiles)
                  THEN [k |-> "Ok", at |-> ""]
                  ELSE [k |-> "Err", at |-> ScaffoldFiles[penv.writes + 1]]
    /\ UNCHANGED <<ts_files, penv, pindex>>
    /\ UNCHANGED <<lexVars, parVars, mapVars, genVars, comVars, prgVars>>

PrjNext ==
    \/ ProjectFind
    \/ ProjectCreateDir
    \/ ProjectCompileFile
    \/ ProjectScaffold

SpecProject == PrjInit /\ [][PrjNext]_vars

\* the compile events of the log, in order
CompileEvents == SelectSeq(plog, LAMBDA e : e.ev = "compile")

\* C19: compile_project compiles the source files one at a time, in the
\* order of ts_files; the file whose compilation fails is the last one it
\* compiles, and when compile returned an error compile_project returns
\* that error; a scaffold file is written only after every source file has
\* been compiled with success.
C19_FilesInTurnScaffoldLast ==
    /\ \A j \in 1..Len(CompileEvents) :
          /\ CompileEvents[j].file = j
          /\ CompileEvents[j].res # "Ok" =>
                /\ j = Len(CompileEvents)
                /\ ppc \in {"returned", "unwound"}
                /\ presult.k = CompileEvents[j].res
                /\ presult.at = compile(ts_files[j]).step
    /\ \A i \in 1..Len(plog) :
          plog[i].ev = "write" =>
             /\ Len(CompileEvents) = Len(ts_files)
             /\ \A j \in 1..Len(ts_files) :
                   /\ compile(ts_files[j]).k = "Ok"
                   /\ \E h \in 1..(i - 1) : plog[h] = [ev |-> "compile", file |-> j, res |-> "Ok"]

\* the second file of a project failed in tokenize after the first was
\* compiled: compile_project returned that error and wrote no scaffold file
C19_Witness ==
    /\ ppc = "returned"
    /\ presult = [k |-> "Err", at |-> "tokenize"]
    /\ Len(plog) = 2
    /\ plog[1] = [ev |-> "compile", file |-> 1, res |-> "Ok"]
    /\ plog[2] = [ev |-> "compile", file |-> 2, res |-> "Err"]

(***************************************************************************)
(* CodeGenerator::generate (src/src/generator.rs) over whole programs.     *)
(* Generated text is a string.  A result is GOk(value) or GErr(message);   *)
(* Try is the ? operator.  An absent Option<Expression> is NoExpr, an      *)
(* absent Option<Type> is NoType, an absent Option<Statement> NoStatement. *)
(***************************************************************************)
NoExpr == [e |-> "None"]
NoStatement == [s |-> "None"]

\* r? followed by F applied to the unwrapped value
Try(r, F(_)) == IF r.k = "Ok" THEN F(r.v) ELSE r

\* str::starts_with
starts_with(s, pat) == pat = "" \/ MatchesAt(s, pat, 1)

\* str::find, 0 for None
find(s, pat) ==
    LET Least(hits) == IF hits = {} THEN 0 ELSE CHOOSE i \in hits : \A j \in hits : i <= j
    IN  Least(Occurrences(s, pat))

\* s.split(pat).next().unwrap(): what stands before the first pat
split_first(s, pat) == IF find(s, pat) = 0 THEN s ELSE SubSeq(s, 1, find(s, pat) - 1)

RECURSIVE trim_start(_), trim_end(_)
trim_start(s) ==
    IF Len(s) > 0 /\ SubSeq(s, 1, 1) \in WhitespaceChars
    THEN trim_start(SubSeq(s, 2, Len(s))) ELSE s
trim_end(s) ==
    IF Len(s) > 0 /\ SubSeq(s, Len(s), Len(s)) \in WhitespaceChars
    THEN trim_end(SubSeq(s, 1, Len(s) - 1)) ELSE s

\* str::trim
trim(s) == trim_start(trim_end(s))

\* the type mapper of a generator: CodeGenerator::new(runtime)
GenMapper(runtime_flag) == TypeMapperNew(runtime_flag)

\* if let Some(ref t) = type_ { self.type_mapper.map_type(t)? } else { "Box<dyn Any>" }
type_or_any(runtime_flag, type_) ==
    IF type_.ty = "None" THEN "Box<dyn Any>" ELSE map_type(GenMapper(runtime_flag), type_).text

\* the names of the type parameters between angle brackets
generic_params(type_parameters) ==
    IF type_parameters = <<>> THEN ""
    ELSE "<" \o Join([i \in 1..Len(type_parameters) |-> type_parameters[i].name], ", ") \o ">"

generate_parameters(runtime_flag, parameters) ==
    Join([i \in 1..Len(parameters) |->
            IF parameters[i].optional
            THEN parameters[i].name \o ": Option<" \o type_or_any(runtime_flag, parameters[i].type_) \o ">"
            ELSE parameters[i].name \o ": " \o type_or_any(runtime_flag, parameters[i].type_)],
         ", ")

\* the type of a variable without annotation, from its initializer
inferred_type(init) ==
    CASE init.e = "Literal" /\ init.lit = "String" -> "String"
      [] init.e = "Literal" /\ init.lit = "Number" -> "f64"
      [] init.e = "Literal" /\ init.lit = "Boolean" -> "bool"
      [] init.e = "Array" -> "Vec<Box<dyn Any>>"
      [] init.e = "Object" -> "HashMap<String, Box<dyn Any>>"
      [] init.e = "New" -> IF init.callee.e = "Identifier"
                           THEN "Box<" \o init.callee.name \o ">" ELSE "Box<dyn Any>"
      [] init.e = "Call" -> IF init.callee.e = "Identifier"
                            THEN (CASE init.callee.name = "greet" -> "String"
                                    [] init.callee.name = "add" -> "f64"
                                    [] OTHER -> "Box<dyn Any>")
                            ELSE "Box<dyn Any>"
      [] OTHER -> "Box<dyn Any>"

generate_variable_declaration(runtime_flag, var) ==
    LET var_type == IF var.type_annotation.ty # "None"
                    THEN map_type(GenMapper(runtime_flag), var.type_annotation).text
                    ELSE inferred_type(var.initializer)
    IN  IF var.initializer.e = "None"
        THEN GOk("let " \o var.name \o ": " \o var_type \o ";")
        ELSE Try(generate_expression(var.initializer),
                 LAMBDA init : GOk("let " \o var.name \o ": " \o var_type \o " = " \o init \o ";"))

generate_expression_statement(expr_stmt) ==
    Try(generate_expression(expr_stmt.expression), LAMBDA expr : GOk(expr \o ";"))

RECURSIVE generate_statement(_, _), generate_statements(_, _)
\* the for loop of the BlockStatement arm
generate_statements(runtime_flag, stmts) ==
    IF stmts = <<>> THEN GOk(<<>>)
    ELSE Try(generate_statement(runtime_flag, Head(stmts)),
             LAMBDA first : Try(generate_statements(runtime_flag, Tail(stmts)),
                                LAMBDA rest : GOk(<<first>> \o rest)))

generate_statement(runtime_flag, statement) ==
    CASE statement.s = "BlockStatement" ->
            Try(generate_statements(runtime_flag, statement.statements),
                LAMBDA statements_ : GOk(Join(statements_, "\n    ")))
      [] statement.s = "ExpressionStatement" ->
            Try(generate_expression(statement.expression),
                LAMBDA expr : GOk((IF contains(expr, "TODO") THEN "unimplemented!()" ELSE expr)
                                  \o ";"))
      [] statement.s = "ReturnStatement" ->
            IF statement.argument.e = "None" THEN GOk("return;")
            ELSE Try(generate_expression(statement.argument),
                     LAMBDA expr :
                        GOk("return "
                            \o (IF contains(expr, "TODO") THEN "unimplemented!()"
                                ELSE IF starts_with(expr, "self.") THEN expr \o ".clone()"
                                ELSE expr)
                            \o ";"))
      [] statement.s = "VariableDeclaration" ->
            generate_variable_declaration(runtime_flag, statement)
      [] OTHER -> GOk("// TODO: Implement statement")

generate_function_declaration(runtime_flag, func) ==
    LET return_type == IF func.return_type.ty # "None"
                       THEN " -> " \o map_type(GenMapper(runtime_flag), func.return_type).text
                       ELSE " -> ()"
    IN  Try(generate_statement(runtime_flag, func.body),
            LAMBDA body :
               GOk("pub fn " \o func.name \o generic_params(func.type_parameters)
                   \o "(" \o generate_parameters(runtime_flag, func.parameters) \o ")"
                   \o return_type \o "{\n    " \o body \o "\n}"))

RECURSIVE constructor_assignments(_)
\* the field assignments that generate_constructor_declaration collects
\* from the statements this.field = value of the constructor's block
constructor_assignments(stmts) ==
    IF stmts = <<>> THEN GOk(<<>>)
    ELSE LET stmt == Head(stmts) IN
         IF /\ stmt.s = "ExpressionStatement"
            /\ stmt.expression.e = "Assignment"
            /\ stmt.expression.left.e = "Member"
            /\ stmt.expression.left.object.e = "This"
            /\ stmt.expression.left.property.e = "Identifier"
         THEN Try(generate_expression(stmt.expression.right),
                  LAMBDA init_value :
                     Try(constructor_assignments(Tail(stmts)),
                         LAMBDA rest :
                            GOk(<<"            " \o stmt.expression.left.property.name
                                  \o ": " \o init_value>> \o rest)))
         ELSE constructor_assignments(Tail(stmts))

generate_constructor_declaration(runtime_flag, constructor) ==
    LET params == [i \in 1..Len(constructor.parameters) |->
                      constructor.parameters[i].name \o ": "
                      \o type_or_any(runtime_flag, constructor.parameters[i].type_)]
        decorators_str == IF constructor.decorators = <<>> THEN ""
                          ELSE "    // Decorators: " \o Join(constructor.decorators, ", ") \o "\n"
        Finish(found) ==
            LET field_assignments ==
                    IF found = <<>> THEN <<"            // No explicit initializers found">>
                    ELSE found
            IN  GOk(decorators_str \o "    " \o "    pub fn new(" \o Join(params, ", ")
                    \o ") -> Self {\n" \o "        Self {\n" \o Join(field_assignments, ",\n")
                    \o "\n        }" \o "\n    }")
    IN  IF constructor.body.s = "None" THEN Finish(<<>>)
        ELSE Try(generate_statement(runtime_flag, constructor.body),
                 LAMBDA body_ :
                    IF constructor.body.s = "BlockStatement"
                    THEN Try(constructor_assignments(constructor.body.statements), Finish)
                    ELSE Finish(<<>>))

\* the entry of the default constructor for a field of the struct
default_constructor_entry(f) ==
    IF contains(f, "= ")
    THEN trim(split_first(f, " = "))
    ELSE trim(split_first(f, ": ")) \o ": Default::default()"

\* a default constructor that leaves out the fields with an initializer:
\* C11 does not hold of it
default_constructor_entries_m(fields) ==
    LET plain == SelectSeq(fields, LAMBDA f : ~contains(f, "= "))
    IN  [i \in 1..Len(plain) |-> default_constructor_entry(plain[i])]

\* fields.iter().map(..).collect::<Vec<_>>()
default_constructor_entries(fields) ==
    [i \in 1..Len(fields) |-> default_constructor_entry(fields[i])]

\* the parameters are generated (_params) and not written: the signature is
\* the name and (&self)
generate_method_declaration(runtime_flag, method) ==
    LET params_ == generate_parameters(runtime_flag, method.parameters)
        return_type == IF method.return_type.ty # "None"
                       THEN " -> " \o map_type(GenMapper(runtime_flag), method.return_type).text
                       ELSE " -> ()"
        decorators_str == IF method.decorators = <<>> THEN ""
                          ELSE "    // Decorators: " \o Join(method.decorators, ", ") \o "\n"
        Finish(body) ==
            GOk(decorators_str \o "    pub fn " \o method.name \o "(&self)" \o return_type
                \o " {\n        " \o body \o "\n    }")
    IN  IF method.body.s = "None" THEN Finish("unimplemented!()")
        ELSE Try(generate_statement(runtime_flag, method.body), Finish)

RECURSIVE class_members(_, _, _)
\* the for loop of generate_class_declaration over the members; acc holds
\* fields, methods and has_constructor.  The members of the classes below
\* are properties, methods and constructors.
class_members(runtime_flag, members, acc) ==
    IF members = <<>> THEN GOk(acc)
    ELSE LET member == Head(members)
             Rest(next) == class_members(runtime_flag, Tail(members), next)
         IN  CASE member.member = "Property" ->
                    LET field_type == type_or_any(runtime_flag, member.type_)
                        field_def == IF member.optional
                                     THEN "    pub " \o member.name \o ": Option<" \o field_type \o ">"
                                     ELSE "    pub " \o member.name \o ": " \o field_type
                    IN  IF member.initializer.e = "None"
                        THEN Rest([acc EXCEPT !.fields = Append(@, field_def)])
                        ELSE Try(generate_expression(member.initializer),
                                 LAMBDA init_value :
                                    Rest([acc EXCEPT !.fields =
                                            Append(@, "    pub " \o member.name \o ": "
                                                      \o field_type \o " = " \o init_value)]))
               [] member.member = "Method" ->
                    Try(generate_method_declaration(runtime_flag, member),
                        LAMBDA method_code :
                           Rest([acc EXCEPT !.methods = Append(@, method_code)]))
               [] member.member = "Constructor" ->
                    Try(generate_constructor_declaration(runtime_flag, member),
                        LAMBDA constructor_code :
                           Rest([acc EXCEPT !.has_constructor = TRUE,
                                            !.methods = Append(@, constructor_code)]))
               [] OTHER -> Rest(acc)

generate_class_declaration(runtime_flag, class) ==
    Try(class_members(runtime_flag, class.members,
                      [fields |-> <<>>, methods |-> <<>>, has_constructor |-> FALSE]),
        LAMBDA acc :
           LET methods ==
                   IF acc.has_constructor THEN acc.methods
                   ELSE Append(acc.methods,
                               "    pub fn new() -> Self {\n        Self {\n"
                               \o Join(default_constructor_entries(acc.fields), ",\n            ")
                               \o "\n        }\n    }")
           IN  GOk([struct_code |->
                        "#[derive(Debug, Clone, Serialize, Deserialize)]\npub struct "
                        \o class.name \o generic_params(class.type_parameters) \o " {\n"
                        \o Join(acc.fields, ",\n") \o "\n}",
                    impl_code |->
                        "impl " \o generic_params(class.type_parameters) \o class.name
                        \o " {\n" \o Join(methods, "\n\n") \o "\n}"]))

RECURSIVE interface_methods(_, _)
\* the for loop of generate_interface_declaration; the members of the
\* interfaces below are properties
interface_methods(runtime_flag, members) ==
    IF members = <<>> THEN <<>>
    ELSE LET prop == Head(members)
             prop_type == type_or_any(runtime_flag, prop.type_)
         IN  <<"    fn get_" \o prop.name \o "(&self) -> " \o prop_type \o ";">>
             \o (IF prop.readonly THEN <<>>
                 ELSE <<"    fn set_" \o prop.name \o "(&mut self, value: " \o prop_type \o ");">>)
             \o interface_methods(runtime_flag, Tail(members))

generate_interface_declaration(runtime_flag, interface) ==
    GOk("pub trait " \o interface.name \o generic_params(interface.type_parameters) \o " {\n"
        \o Join(interface_methods(runtime_flag, interface.members), "\n") \o "\n}")

generate_type_alias_declaration(runtime_flag, type_alias) ==
    GOk("pub type " \o type_alias.name \o " = "
        \o map_type(GenMapper(runtime_flag), type_alias.type_definition).text \o ";")

\* matches!(init, Expression::Literal(Literal::String(_)))
IsStringLiteral(init) == init.e = "Literal" /\ init.lit = "String"

\* a test that looks at the first member only: C12 does not hold of it
has_string_values_m(members) == members # <<>> /\ IsStringLiteral(members[1].initializer)

\* the first loop of generate_enum_declaration
has_string_values(members) ==
    \E i \in 1..Len(members) : IsStringLiteral(members[i].initializer)

RECURSIVE const_definitions(_)
const_definitions(members) ==
    IF members = <<>> THEN <<>>
    ELSE LET member == Head(members) IN
         (CASE IsStringLiteral(member.initializer) ->
                  <<"pub const " \o member.name \o ": &str = \"" \o member.initializer.v \o "\";">>
            [] member.initializer.e = "Literal" /\ member.initializer.lit = "Number" ->
                  <<"pub const " \o member.name \o ": f64 = " \o member.initializer.v \o ";">>
            [] OTHER -> <<>>)
         \o const_definitions(Tail(members))

enum_variants(members) == [i \in 1..Len(members) |-> "    " \o members[i].name]

generate_enum_declaration(enum_decl) ==
    LET enum_text == "#[derive(Debug, Clone, Serialize, Deserialize)]\npub enum "
                     \o enum_decl.name \o " {\n"
                     \o Join(enum_variants(enum_decl.members), ",\n") \o "\n}"
    IN  IF has_string_values(enum_decl.members)
        THEN GOk((IF const_definitions(enum_decl.members) # <<>>
                  THEN Join(const_definitions(enum_decl.members), "\n") \o "\n" ELSE "")
                 \o (IF enum_decl.members # <<>> THEN enum_text ELSE ""))
        ELSE GOk(enum_text)

import_part(specifier) ==
    CASE specifier.spec = "Named" ->
            IF specifier.name = specifier.imported THEN specifier.name
            ELSE specifier.imported \o " as " \o specifier.name
      [] specifier.spec = "Default" -> specifier.name
      [] specifier.spec = "Namespace" -> "* as " \o specifier.name

generate_import_declaration(import) ==
    IF import.specifiers = <<>>
    THEN GOk("use " \o import.source \o ";")
    ELSE GOk("use " \o import.source \o "::{"
             \o Join([i \in 1..Len(import.specifiers) |-> import_part(import.specifiers[i])], ", ")
             \o "};")

\* generate_namespace_declaration and generate_module_declaration
generate_namespace_declaration(runtime_flag, namespace) ==
    Try(generate_statement(runtime_flag, namespace.body),
        LAMBDA body : GOk("pub mod " \o namespace.name \o " {\n" \o body \o "\n}"))

\* the text that generate_runtime_support returns
generate_runtime_support ==
    "\n"
    \o "// Runtime support for TypeScript semantics\n"
    \o "use std::any::Any;\n"
    \o "\n"
    \o "pub type AnyType = Box<dyn Any>;\n"
    \o "pub type UnknownType = Box<dyn Any>;\n"
    \o "\n"
    \o "#[derive(Debug, Clone, Serialize, Deserialize)]\n"
    \o "pub struct Symbol {\n"
    \o "    description: Option<String>,\n"
    \o "}\n"
    \o "\n"
    \o "impl Symbol {\n"
    \o "    pub fn new(description: Option<String>) -> Self {\n"
    \o "        Self { description }\n"
    \o "    }\n"
    \o "}\n"
    \o "\n"
    \o "#[derive(Debug, Clone, Serialize, Deserialize)]\n"
    \o "pub enum Union<T, U> {\n"
    \o "    Left(T),\n"
    \o "    Right(U),\n"
    \o "}\n"
    \o "\n"
    \o "#[derive(Debug, Clone, Serialize, Deserialize)]\n"
    \o "pub struct Intersection<T, U> {\n"
    \o "    pub left: T,\n"
    \o "    pub right: U,\n"
    \o "}\n"
    \o "\n"
    \o "pub trait TypeScriptObject {\n"
    \o "    fn get_property(&self, key: &str) -> Option<Any>;\n"
    \o "    fn set_property(&mut self, key: &str, value: Any);\n"
    \o "    fn has_property(&self, key: &str) -> bool;\n"
    \o "    fn delete_property(&mut self, key: &str) -> bool;\n"
    \o "}\n"
    \o "\n"
    \o "impl TypeScriptObject for HashMap<String, Any> {\n"
    \o "    fn get_property(&self, key: &str) -> Option<Any> {\n"
    \o "        self.get(key).cloned()\n"
    \o "    }\n"
    \o "\n"
    \o "    fn set_property(&mut self, key: &str, value: Any) {\n"
    \o "        self.insert(key.to_string(), value);\n"
    \o "    }\n"
    \o "\n"
    \o "    fn has_property(&self, key: &str) -> bool {\n"
    \o "        self.contains_key(key)\n"
    \o "    }\n"
    \o "\n"
    \o "    fn delete_property(&mut self, key: &str) -> bool {\n"
    \o "        self.remove(key).is_some()\n"
    \o "    }\n"
    \o "}\n"


Push(b, bucket, code) == [b EXCEPT ![bucket] = Append(@, code)]

\* the arms that the match on a top-level statement and the match on the
\* declaration of an export have in common
declaration_arm(runtime_flag, b, statement) ==
    CASE statement.s = "FunctionDeclaration" ->
            Try(generate_function_declaration(runtime_flag, statement),
                LAMBDA func_code : GOk(Push(b, "functions", func_code)))
      [] statement.s = "ClassDeclaration" ->
            Try(generate_class_declaration(runtime_flag, statement),
                LAMBDA pair : GOk(Push(Push(b, "structs", pair.struct_code),
                                       "functions", pair.impl_code)))
      [] statement.s = "InterfaceDeclaration" ->
            Try(generate_interface_declaration(runtime_flag, statement),
                LAMBDA trait_code : GOk(Push(b, "traits", trait_code)))
      [] statement.s = "TypeAlias" ->
            Try(generate_type_alias_declaration(runtime_flag, statement),
                LAMBDA type_code : GOk(Push(b, "structs", type_code)))
      [] statement.s = "EnumDeclaration" ->
            Try(generate_enum_declaration(statement),
                LAMBDA enum_code : GOk(Push(b, "enums", enum_code)))

ExportedKinds ==
    {"ClassDeclaration", "InterfaceDeclaration", "FunctionDeclaration", "TypeAlias",
     "EnumDeclaration"}

\* one turn of the for loop of generate: the vectors after the statement
process_statement(runtime_flag, b, statement) ==
    CASE statement.s = "VariableDeclaration" ->
            Try(generate_variable_declaration(runtime_flag, statement),
                LAMBDA var_code : GOk(Push(b, "functions", var_code)))
      [] statement.s \in ExportedKinds -> declaration_arm(runtime_flag, b, statement)
      [] statement.s = "ImportDeclaration" ->
            Try(generate_import_declaration(statement),
                LAMBDA import_code : GOk(Push(b, "imports", import_code)))
      [] statement.s = "ExportDeclaration" ->
            IF statement.declaration.s \in ExportedKinds
            THEN declaration_arm(runtime_flag, b, statement.declaration)
            ELSE GOk(b)
      [] statement.s \in {"NamespaceDeclaration", "ModuleDeclaration"} ->
            Try(generate_namespace_declaration(runtime_flag, statement),
                LAMBDA module_code : GOk(Push(b, "modules", module_code)))
      [] statement.s = "ExpressionStatement" ->
            Try(generate_expression_statement(statement),
                LAMBDA expr_code : GOk(Push(b, "functions", expr_code)))
      [] OTHER -> GOk(b)

\* what generate pushes to rust_code before its loop
prelude(runtime_flag) ==
    "use std::collections::HashMap;\n" \o "\n"
    \o (IF runtime_flag THEN generate_runtime_support \o "\n" ELSE "")

MainFunction ==
    "\n\nfn main() {\n" \o "    // Example usage\n"
    \o "    println!(\"TypeScript to Rust compilation successful!\");\n" \o "}\n"

\* the vectors joined with the traits before the structs: C13 does not hold
\* of it
combine_m(rust_code_, b) ==
    (IF b.structs # <<>> THEN "use serde::{Deserialize, Serialize};\n" ELSE "")
    \o rust_code_
    \o Join(b.traits, "\n\n") \o "\n"
    \o Join(b.structs, "\n\n") \o "\n"
    \o Join(b.enums, "\n\n") \o "\n"
    \o Join(b.functions, "\n\n") \o "\n"
    \o Join(b.modules, "\n\n")
    \o (IF b.structs # <<>> \/ b.functions # <<>> THEN MainFunction ELSE "")

\* what generate does after its loop: the text it returns
combine(rust_code_, b) ==
    (IF b.structs # <<>> THEN "use serde::{Deserialize, Serialize};\n" ELSE "")
    \o rust_code_
    \o Join(b.structs, "\n\n") \o "\n"
    \o Join(b.traits, "\n\n") \o "\n"
    \o Join(b.enums, "\n\n") \o "\n"
    \o Join(b.functions, "\n\n") \o "\n"
    \o Join(b.modules, "\n\n")
    \o (IF b.structs # <<>> \/ b.functions # <<>> THEN MainFunction ELSE "")

RECURSIVE process_statements(_, _, _)
process_statements(runtime_flag, b, stmts) ==
    IF stmts = <<>> THEN GOk(b)
    ELSE Try(process_statement(runtime_flag, b, Head(stmts)),
             LAMBDA next : process_statements(runtime_flag, next, Tail(stmts)))

\* CodeGenerator::new(runtime_flag).generate(&program) as one function
generate(runtime_flag, prog) ==
    Try(process_statements(runtime_flag, NoBuckets, prog),
        LAMBDA b : GOk(combine(prelude(runtime_flag), b)))

(***************************************************************************)
(* The programs handed to generate.                                        *)
(***************************************************************************)
\* the most statements of a program
MaxStatements == 2

Number1 == [e |-> "Literal", lit |-> "Number", v |-> "1"]
StringS == [e |-> "Literal", lit |-> "String", v |-> "s"]
IdentX == [e |-> "Identifier", name |-> "x"]
\* x && x: generate_expression has no arm for it
LogicalX == [e |-> "Logical", left |-> IdentX, operator |-> Tok("And", ""), right |-> IdentX]
\* x % 1: map_operator has no arm for the operator
ModuloX == [e |-> "Binary", left |-> IdentX, operator |-> Tok("Modulo", ""), right |-> Number1]

VarDecl(name, type_annotation, initializer) ==
    [s |-> "VariableDeclaration", keyword |-> "let", name |-> name,
     type_annotation |-> type_annotation, initializer |-> initializer]
ExprStmt(expression) == [s |-> "ExpressionStatement", expression |-> expression]
ReturnStmt(argument) == [s |-> "ReturnStatement", argument |-> argument]
BlockStmt(stmts) == [s |-> "BlockStatement", statements |-> stmts]
IfStmt(condition, consequent) ==
    [s |-> "IfStatement", condition |-> condition, consequent |-> consequent,
     alternate |-> NoStatement]
FuncDecl(name, return_type, body) ==
    [s |-> "FunctionDeclaration", name |-> name, type_parameters |-> <<>>,
     parameters |-> <<[name |-> "a", optional |-> FALSE, type_ |-> [ty |-> "Number"]]>>,
     return_type |-> return_type, body |-> body]
PropertyDecl(name, optional, type_, initializer) ==
    [member |-> "Property", name |-> name, optional |-> optional, type_ |-> type_,
     initializer |-> initializer]
ConstructorDecl ==
    [member |-> "Constructor", parameters |-> <<>>, body |-> NoStatement, decorators |-> <<>>]
\* a method with the given parameter names, each of type number
MethodDecl(name, parameter_names, body) ==
    [member |-> "Method", name |-> name,
     parameters |-> [i \in 1..Len(parameter_names) |->
                        [name |-> parameter_names[i], optional |-> FALSE,
                         type_ |-> [ty |-> "Number"]]],
     return_type |-> [ty |-> "Number"], body |-> body, decorators |-> <<>>]
\* this.name = value;
ThisAssign(name, value) ==
    ExprStmt([e |-> "Assignment",
              left |-> [e |-> "Member", object |-> [e |-> "This"],
                        property |-> [e |-> "Identifier", name |-> name],
                        computed |-> FALSE],
              operator |-> Tok("Assign", ""), right |-> value])
\* a constructor with the parameter x and the block stmts
ConstructorOf(stmts) ==
    [member |-> "Constructor",
     parameters |-> <<[name |-> "x", optional |-> FALSE, type_ |-> [ty |-> "Number"]]>>,
     body |-> BlockStmt(stmts), decorators |-> <<>>]
ClassDecl(name, members) ==
    [s |-> "ClassDeclaration", name |-> name, type_parameters |-> <<>>, members |-> members]
InterfaceDecl(name, members) ==
    [s |-> "InterfaceDeclaration", name |-> name, type_parameters |-> <<>>,
     members |-> members]
TypeAliasDecl(name, type_definition) ==
    [s |-> "TypeAlias", name |-> name, type_definition |-> type_definition]
EnumMember(name, initializer) == [name |-> name, initializer |-> initializer]
EnumDecl(name, members) == [s |-> "EnumDeclaration", name |-> name, members |-> members]
ImportDecl(source, specifiers) ==
    [s |-> "ImportDeclaration", source |-> source, specifiers |-> specifiers]
ExportDecl(declaration) == [s |-> "ExportDeclaration", declaration |-> declaration]
NamespaceDecl(name, body) == [s |-> "NamespaceDeclaration", name |-> name, body |-> body]

\* classes without constructor, with 0 to 3 properties, and classes with a
\* constructor: without body, assigning every field, assigning one field of
\* two, and assigning none; classes with methods of 0, 1 and 2 parameters
SampleClasses ==
    {ClassDecl("C0", <<>>),
     ClassDecl("C1", <<PropertyDecl("p", FALSE, [ty |-> "Number"], Number1)>>),
     ClassDecl("C2", <<PropertyDecl("p", FALSE, [ty |-> "String"], NoExpr),
                       PropertyDecl("q", TRUE, NoType, StringS)>>),
     ClassDecl("C3", <<PropertyDecl("p", FALSE, [ty |-> "Number"], Number1),
                       PropertyDecl("q", TRUE, [ty |-> "Boolean"], NoExpr),
                       PropertyDecl("r", FALSE, NoType, LogicalX)>>),
     ClassDecl("C4", <<PropertyDecl("p", FALSE, [ty |-> "Number"], NoExpr), ConstructorDecl>>),
     ClassDecl("C5", <<PropertyDecl("p", FALSE, [ty |-> "Number"], NoExpr),
                       ConstructorOf(<<ThisAssign("p", IdentX)>>)>>),
     ClassDecl("C6", <<PropertyDecl("p", FALSE, [ty |-> "Number"], NoExpr),
                       PropertyDecl("q", FALSE, [ty |-> "Number"], Number1),
                       ConstructorOf(<<ThisAssign("p", IdentX)>>)>>),
     ClassDecl("C7", <<PropertyDecl("p", FALSE, [ty |-> "Number"], Number1),
                       ConstructorOf(<<ExprStmt(IdentX)>>)>>),
     ClassDecl("C8", <<MethodDecl("m", <<>>, BlockStmt(<<ReturnStmt(Number1)>>))>>),
     ClassDecl("C9", <<PropertyDecl("p", FALSE, [ty |-> "Number"], NoExpr),
                       MethodDecl("m", <<"a", "b">>, BlockStmt(<<ReturnStmt(IdentX)>>)),
                       MethodDecl("n", <<"c">>, NoStatement)>>)}

SampleEnums ==
    {EnumDecl("E0", <<EnumMember("A", NoExpr), EnumMember("B", NoExpr)>>),
     EnumDecl("E1", <<EnumMember("A", Number1), EnumMember("B", NoExpr)>>),
     EnumDecl("E2", <<EnumMember("A", StringS)>>),
     EnumDecl("E3", <<EnumMember("A", NoExpr), EnumMember("B", StringS),
                      EnumMember("C", Number1)>>),
     EnumDecl("E4", <<EnumMember("A", IdentX)>>)}

SampleImports ==
    {ImportDecl("m", <<>>),
     ImportDecl("m", <<[spec |-> "Named", name |-> "a", imported |-> "a"],
                       [spec |-> "Named", name |-> "b", imported |-> "c"]>>),
     ImportDecl("n", <<[spec |-> "Default", name |-> "d"],
                       [spec |-> "Namespace", name |-> "ns"]>>)}

\* the declarations that generate translates at top level
SampleDeclarations ==
    {VarDecl("v", NoType, Number1), VarDecl("w", [ty |-> "String"], NoExpr),
     FuncDecl("f", NoType, BlockStmt(<<ReturnStmt(IdentX)>>)),
     FuncDecl("g", [ty |-> "Number"], BlockStmt(<<ExprStmt(LogicalX), IfStmt(IdentX, ReturnStmt(NoExpr))>>)),
     InterfaceDecl("I", <<[member |-> "Property", name |-> "p", optional |-> FALSE,
                           type_ |-> [ty |-> "Number"], readonly |-> FALSE],
                          [member |-> "Property", name |-> "q", optional |-> FALSE,
                           type_ |-> NoType, readonly |-> TRUE]>>),
     TypeAliasDecl("T", [ty |-> "String"])}
    \cup SampleClasses \cup SampleEnums

\* the statements the top-level match of generate has no arm for
SampleUnhandled ==
    {ReturnStmt(Number1), IfStmt(IdentX, ExprStmt(IdentX)), BlockStmt(<<ExprStmt(IdentX)>>)}

SampleStatements ==
    SampleDeclarations \cup SampleImports \cup SampleUnhandled
    \cup {ExportDecl(d) : d \in SampleDeclarations}
    \cup {NamespaceDecl("N", BlockStmt(<<VarDecl("v", NoType, Number1)>>)),
          ExprStmt(Number1), ExprStmt(LogicalX), ExprStmt(ModuloX)}

\* the statements of the programs of more than one statement
OrderSamples ==
    {FuncDecl("f", NoType, BlockStmt(<<ReturnStmt(IdentX)>>)),
     ClassDecl("C1", <<PropertyDecl("p", FALSE, [ty |-> "Number"], Number1)>>),
     ExportDecl(ClassDecl("C0", <<>>)),
     InterfaceDecl("J", <<>>),
     TypeAliasDecl("T", [ty |-> "String"]),
     EnumDecl("E2", <<EnumMember("A", StringS)>>),
     NamespaceDecl("N", BlockStmt(<<VarDecl("v", NoType, Number1)>>)),
     ReturnStmt(Number1)}

\* every program of one sample statement, and the programs of up to
\* MaxStatements statements of OrderSamples
Programs ==
    {<<statement>> : statement \in SampleStatements}
    \cup SeqsUpTo(OrderSamples, MaxStatements)

(***************************************************************************)
(* generate, one action per turn of its loop.                              *)
(***************************************************************************)

PrgInit ==
    /\ program \in Programs
    /\ runtime_support \in BOOLEAN
    /\ gpc = "start"
    /\ gindex = 0
    /\ rust_code = ""
    /\ buckets = NoBuckets
    /\ gen_result = [k |-> "none", v |-> ""]
    /\ gcalls = 1
    /\ LexIdle /\ ParIdle /\ MapIdle /\ GenIdle /\ ComIdle /\ PrjIdle

\* the pushes to rust_code before the loop
GeneratePrelude ==
    /\ gpc = "start"
    /\ rust_code' = prelude(runtime_support)
    /\ gpc' = "loop"
    /\ UNCHANGED <<program, runtime_support, gindex, buckets, gen_result, gcalls>>
    /\ UNCHANGED <<lexVars, parVars, mapVars, genVars, comVars, prjVars>>

\* one turn of the loop over program.statements
GenerateStatement ==
    /\ gpc = "loop"
    /\ gindex < Len(program)
    /\ gindex' = gindex + 1
    /\ LET After(r) ==
               IF r.k = "Ok"
               THEN buckets' = r.v /\ gpc' = "loop" /\ gen_result' = gen_result
               ELSE buckets' = buckets /\ gpc' = "returned" /\ gen_result' = r
       IN  After(process_statement(runtime_support, buckets, program[gindex + 1]))
    /\ UNCHANGED <<program, runtime_support, rust_code, gcalls>>
    /\ UNCHANGED <<lexVars, parVars, mapVars, genVars, comVars, prjVars>>

\* the loop is over: join the vectors and return Ok(rust_code)
GenerateCombine ==
    /\ gpc = "loop"
    /\ gindex >= Len(program)
    /\ rust_code' = combine(rust_code, buckets)
    /\ gen_result' = GOk(combine(rust_code, buckets))
    /\ gpc' = "returned"
    /\ UNCHANGED <<program, runtime_support, gindex, buckets, gcalls>>
    /\ UNCHANGED <<lexVars, parVars, mapVars, genVars, comVars, prjVars>>

PrgNext == GeneratePrelude \/ GenerateStatement \/ GenerateCombine

SpecGenerate == PrgInit /\ [][PrgNext]_vars

\* generate returned Ok
Generated == gpc = "returned" /\ gen_result.k = "Ok"

(***************************************************************************)
(* Claims about generate.                                                  *)
(***************************************************************************)
\* the declaration a statement holds: the one an export wraps, or itself
Declared(statement) ==
    IF statement.s = "ExportDeclaration" THEN statement.declaration ELSE statement

RECURSIVE Split(_, _)
\* the pieces of s between the occurrences of sep
Split(s, sep) ==
    IF find(s, sep) = 0 THEN <<s>>
    ELSE <<SubSeq(s, 1, find(s, sep) - 1)>>
         \o Split(SubSeq(s, find(s, sep) + Len(sep), Len(s)), sep)

\* what stands in s after the first open and before the close that follows
Between(s, open, close) ==
    LET rest == SubSeq(s, find(s, open) + Len(open), Len(s))
    IN  IF find(rest, close) = 0 THEN rest ELSE SubSeq(rest, 1, find(rest, close) - 1)

\* the entries of a list written between open and close, one per line
Entries(s, open, close, sep) ==
    IF Between(s, open, close) = "" THEN <<>>
    ELSE [i \in 1..Len(Split(Between(s, open, close), sep)) |->
             trim(Split(Between(s, open, close), sep)[i])]

Properties(class) == SelectSeq(class.members, LAMBDA m : m.member = "Property")
HasConstructor(class) == \E i \in 1..Len(class.members) : class.members[i].member = "Constructor"

\* the entries of the struct literal of fn new() in an impl item
ConstructorEntries(impl_code) ==
    Entries(impl_code, "    pub fn new() -> Self {\n        Self {\n", "\n        }\n    }", ",\n")

\* C11: for a class with N property members and no constructor member, the
\* impl item emitted for the class holds a default constructor new() whose
\* struct literal has exactly N entries, the i-th naming the i-th property
\* of the class, whether or not the property carries an initializer.
C11_DefaultConstructorFields ==
    Generated =>
        \A i \in 1..Len(program) :
            (Declared(program[i]).s = "ClassDeclaration" /\ ~HasConstructor(Declared(program[i])))
            => \E k \in 1..Len(buckets.functions) :
                  /\ starts_with(buckets.functions[k], "impl " \o Declared(program[i]).name \o " {")
                  /\ contains(rust_code, buckets.functions[k])
                  /\ contains(buckets.functions[k], "    pub fn new() -> Self {")
                  /\ Len(ConstructorEntries(buckets.functions[k]))
                        = Len(Properties(Declared(program[i])))
                  /\ \A j \in 1..Len(Properties(Declared(program[i]))) :
                        contains(" " \o ConstructorEntries(buckets.functions[k])[j],
                                 " " \o Properties(Declared(program[i]))[j].name \o ": ")

\* generate returned the text for the class C3: three properties, two of
\* them with an initializer, and no constructor
C11_Witness ==
    /\ Generated
    /\ Len(program) = 1
    /\ program[1].s = "ClassDeclaration"
    /\ program[1].name = "C3"
    /\ Len(ConstructorEntries(buckets.functions[1])) = 3

\* the enum declarations of the program in source order
EnumsOf(prog) ==
    SelectSeq([i \in 1..Len(prog) |-> Declared(prog[i])], LAMBDA d : d.s = "EnumDeclaration")

\* an enum item in the string form: it holds a named string constant
StringForm(item) == contains(item, ": &str = \"")

\* the variants of the enum of an enum item
VariantsOf(item) == Entries(item, " {\n", "\n}", ",\n")

\* C12: the item emitted for an enum declaration is in the string form
\* (named string constants, then an enum of bare variants) exactly when some
\* member has a string-literal initializer; otherwise it holds no constant;
\* in both forms the enum has one bare variant per member, in order.
C12_StringFormIffStringMember ==
    Generated =>
        /\ Len(buckets.enums) = Len(EnumsOf(program))
        /\ \A k \in 1..Len(EnumsOf(program)) :
              LET Holds(decl, item) ==
                      /\ contains(rust_code, item)
                      /\ StringForm(item) <=>
                            \E i \in 1..Len(decl.members) :
                                IsStringLiteral(decl.members[i].initializer)
                      /\ \A i \in 1..Len(decl.members) :
                            IsStringLiteral(decl.members[i].initializer) =>
                                contains(item, "pub const " \o decl.members[i].name \o ": &str = \""
                                               \o decl.members[i].initializer.v \o "\";")
                      /\ ~StringForm(item) =>
                            /\ ~contains(item, "pub const ")
                            /\ starts_with(item, "#[derive(Debug, Clone, Serialize, Deserialize)]\npub enum "
                                                 \o decl.name \o " {")
                      /\ contains(item, "pub enum " \o decl.name \o " {")
                      /\ VariantsOf(item) = [i \in 1..Len(decl.members) |-> decl.members[i].name]
              IN  Holds(EnumsOf(program)[k], buckets.enums[k])

\* generate returned the text for the enum E3, whose second member alone
\* has a string-literal initializer
C12_Witness ==
    /\ Generated
    /\ Len(program) = 1
    /\ program[1].s = "EnumDeclaration"
    /\ program[1].name = "E3"
    /\ StringForm(buckets.enums[1])

\* the items that the declaration yields, each with the rank of its bucket:
\* 1 structs and type aliases, 2 traits, 3 enums, 4 functions and impls,
\* 5 modules
ItemsOf(runtime_flag, d) ==
    CASE d.s = "ClassDeclaration" ->
            {[rank |-> 1, text |-> generate_class_declaration(runtime_flag, d).v.struct_code],
             [rank |-> 4, text |-> generate_class_declaration(runtime_flag, d).v.impl_code]}
      [] d.s = "TypeAlias" ->
            {[rank |-> 1, text |-> generate_type_alias_declaration(runtime_flag, d).v]}
      [] d.s = "InterfaceDeclaration" ->
            {[rank |-> 2, text |-> generate_interface_declaration(runtime_flag, d).v]}
      [] d.s = "EnumDeclaration" -> {[rank |-> 3, text |-> generate_enum_declaration(d).v]}
      [] d.s = "FunctionDeclaration" ->
            {[rank |-> 4, text |-> generate_function_declaration(runtime_flag, d).v]}
      [] d.s \in {"NamespaceDeclaration", "ModuleDeclaration"} ->
            {[rank |-> 5, text |-> generate_namespace_declaration(runtime_flag, d).v]}
      [] OTHER -> {}

\* a stands in the text, and b stands somewhere after it
StandsBefore(text, a, b) ==
    LET After(first) == first # 0 /\ \E p \in Occurrences(text, b) : first + Len(a) <= p
    IN  After(find(text, a))

C14_MainIffStructOrFunction ==
    Generated =>
        (contains(rust_code, "fn main() {")
         <=> \E i \in 1..Len(program) :
                Declared(program[i]).s \in {"ClassDeclaration", "FunctionDeclaration"})

\* the statements the generator translates at top level
TranslatedKinds ==
    {"VariableDeclaration", "FunctionDeclaration", "ClassDeclaration", "InterfaceDeclaration",
     "TypeAlias", "EnumDeclaration", "ImportDeclaration", "NamespaceDeclaration",
     "ModuleDeclaration", "ExpressionStatement"}

\* the placeholders in a text
PlaceholdersIn(text) == Occurrences(text, "// TODO") \cup Occurrences(text, "unimplemented!()")

\* C15: every statement of the program that the generator has no
\* translation for stands in the generated text as a placeholder: the text
\* holds at least as many placeholders as the program has such statements.
C15_UnhandledLeavePlaceholder ==
    Generated =>
        Cardinality(PlaceholdersIn(rust_code))
            >= Cardinality({i \in 1..Len(program) : Declared(program[i]).s \notin TranslatedKinds})

\* C16: for every import declaration of the program, the text generate
\* returns holds the use statement built from its source and specifiers.
C16_ImportsEmitted ==
    Generated =>
        \A i \in 1..Len(program) :
            program[i].s = "ImportDeclaration" =>
                contains(rust_code, generate_import_declaration(program[i]).v)

\* C17: for a declaration D of a kind that generate translates at top level
\* (variable, function, class, interface, type alias, enum), generate
\* returns for the program export D what it returns for the program D.
C17_ExportForwardsDeclaration ==
    (/\ gpc = "returned"
     /\ Len(program) = 1
     /\ program[1].s = "ExportDeclaration"
     /\ program[1].declaration.s \in
            {"VariableDeclaration", "FunctionDeclaration", "ClassDeclaration",
             "InterfaceDeclaration", "TypeAlias", "EnumDeclaration"})
    => gen_result = generate(runtime_support, <<program[1].declaration>>)


\* C23: in the item emitted for an enum none of whose members has a
\* string-literal initializer, the variant of every member that has a
\* numeric initializer is the member's name with an explicit discriminant.
C23_NumericDiscriminantsKept ==
    Generated =>
        \A k \in 1..Len(EnumsOf(program)) :
            LET Holds(decl, item) ==
                    ~has_string_values(decl.members) =>
                        \A i \in 1..Len(decl.members) :
                            (decl.members[i].initializer.e = "Literal"
                             /\ decl.members[i].initializer.lit = "Number") =>
                                /\ i <= Len(VariantsOf(item))
                                /\ starts_with(VariantsOf(item)[i],
                                               decl.members[i].name \o " = ")
            IN  Holds(EnumsOf(program)[k], buckets.enums[k])


\* the entries of the struct literal that fn new returns in an impl item
NewEntries(impl_code) ==
    Entries(impl_code, ") -> Self {\n        Self {\n", "\n        }\n    }", ",\n")

\* C24: the impl item of a class holds exactly one constructor new, and the
\* struct literal it returns has one entry for every property of the class
\* and no other entry, whether the class has a constructor with this.field
\* assignments, a constructor without them or no constructor.
C24_ConstructorNamesEveryField ==
    Generated =>
        \A i \in 1..Len(program) :
            Declared(program[i]).s = "ClassDeclaration"
            => \E k \in 1..Len(buckets.functions) :
                  LET Holds(class, impl_code) ==
                          /\ starts_with(impl_code, "impl " \o class.name \o " {")
                          /\ contains(rust_code, impl_code)
                          /\ Cardinality(Occurrences(impl_code, "pub fn new(")) = 1
                          /\ Len(NewEntries(impl_code)) = Len(Properties(class))
                          /\ \A j \in 1..Len(Properties(class)) :
                                Cardinality({e \in 1..Len(NewEntries(impl_code)) :
                                    contains(" " \o NewEntries(impl_code)[e],
                                             " " \o Properties(class)[j].name \o ": ")}) = 1
                  IN  Holds(Declared(program[i]), buckets.functions[k])


(***************************************************************************)
(* A template literal from source text to generated text: the lexer's      *)
(* token (lexer.rs 488-540), the expression parse_primary_expression       *)
(* builds from it (parser.rs 707-718) and the text generate_expression     *)
(* returns for it (generator.rs 1074-1109).                                *)
(***************************************************************************)
\* the most parts (runs of text, interpolation spans) of a template source
MaxTemplateParts == 3

\* a part of a template literal: literal text, or a span ${name}
TextPart(cs) == [span |-> FALSE, cs |-> cs]
SpanPart(cs) == [span |-> TRUE, cs |-> cs]
TemplateParts ==
    {TextPart(<<"a">>), TextPart(<<"b", " ">>), SpanPart(<<"x">>), SpanPart(<<"y">>),
     SpanPart(<<"n", "a", "m", "e">>)}

RECURSIVE SpellParts(_)
\* the characters between the backticks
SpellParts(parts) ==
    IF parts = <<>> THEN <<>>
    ELSE (IF Head(parts).span THEN <<"$", "{">> \o Head(parts).cs \o <<"}">>
          ELSE Head(parts).cs)
         \o SpellParts(Tail(parts))

SpellTemplate(parts) == <<Backtick>> \o SpellParts(parts) \o <<Backtick>>

TemplateSources == {SpellTemplate(parts) : parts \in SeqsUpTo(TemplateParts, MaxTemplateParts)}

TplInit ==
    /\ input \in TemplateSources
    /\ lposition = 0
    /\ ltokens = <<>>
    /\ lstatus = "idle"
    /\ lskipped = {}
    /\ gexpr = [e |-> "None"]
    /\ gresult = [k |-> "none", v |-> ""]
    /\ ParIdle /\ MapIdle /\ ComIdle /\ OthIdle

\* the template literal of the source is tokenized, parsed as a primary
\* expression and generated
LowerTemplate ==
    /\ gresult.k = "none"
    /\ \E lexed \in {tokenize(input)} :
          /\ lexed.k = "ok"
          /\ ltokens' = lexed.toks
          /\ lposition' = lexed.pos
          /\ \E parsed \in {parse_primary_expression(lexed.toks, 0)} :
                /\ parsed.k = "Ok"
                /\ gexpr' = parsed.v
                /\ gresult' = generate_expression(parsed.v)
    /\ UNCHANGED <<input, lstatus, lskipped, parVars, mapVars, comVars, othVars>>

SpecTemplate == TplInit /\ [][LowerTemplate]_vars

\* the parts that spell the source
PartsOf(inp) ==
    CHOOSE parts \in SeqsUpTo(TemplateParts, MaxTemplateParts) : SpellTemplate(parts) = inp

\* the interpolated expressions of the parts, in source order
SpanNames(parts) ==
    LET spans == SelectSeq(parts, LAMBDA p : p.span)
    IN  [i \in 1..Len(spans) |-> StrOf(spans[i].cs)]

\* str::ends_with
ends_with(s, pat) == Len(pat) <= Len(s) /\ SubSeq(s, Len(s) - Len(pat) + 1, Len(s)) = pat

\* C25: a template literal with k >= 1 interpolation spans is lowered to a
\* format call whose format string holds exactly k `{}` placeholders and
\* whose arguments are the k interpolated expressions in source order; one
\* without a span is lowered to the plain string of its text.
C25_TemplateLowering ==
    gresult.k # "none" =>
        LET Holds(parts) ==
                IF SpanNames(parts) = <<>>
                THEN gresult = GOk("\"" \o StrOf(SpellParts(parts)) \o "\"")
                ELSE /\ gresult.k = "Ok"
                     /\ starts_with(gresult.v, "format!(\"")
                     /\ Cardinality(Occurrences(gresult.v, "{}")) = Len(SpanNames(parts))
                     /\ ends_with(gresult.v, "\", " \o Join(SpanNames(parts), ", ") \o ")")
        IN  Holds(PartsOf(input))


(***************************************************************************)
(* One CodeGenerator asked to generate more than once: the vectors are     *)
(* fields of the generator (generator.rs 9-18), set by new (22-33) and     *)
(* pushed to by generate (36-154).                                         *)
(***************************************************************************)
\* the most calls of generate on one CodeGenerator
MaxCalls == 2

\* the programs handed to a generator that is used more than once
RegenPrograms == {<<>>} \cup {<<statement>> : statement \in OrderSamples}

RegenInit ==
    /\ program \in RegenPrograms
    /\ runtime_support \in BOOLEAN
    /\ gpc = "start"
    /\ gindex = 0
    /\ rust_code = ""
    /\ buckets = NoBuckets
    /\ gen_result = [k |-> "none", v |-> ""]
    /\ gcalls = 1
    /\ LexIdle /\ ParIdle /\ MapIdle /\ GenIdle /\ ComIdle /\ PrjIdle

\* generate has returned and is called again on the same CodeGenerator:
\* rust_code is a new local, the fields of the generator stay as they are
GenerateAgain ==
    /\ gpc = "returned"
    /\ gcalls < MaxCalls
    /\ program' \in RegenPrograms
    /\ gcalls' = gcalls + 1
    /\ gpc' = "start"
    /\ gindex' = 0
    /\ rust_code' = ""
    /\ gen_result' = [k |-> "none", v |-> ""]
    /\ UNCHANGED <<runtime_support, buckets>>
    /\ UNCHANGED <<lexVars, parVars, mapVars, genVars, comVars, prjVars>>

SpecRegenerate == RegenInit /\ [][PrgNext \/ GenerateAgain]_vars

\* C28: the text generate returns is the text a freshly created generator
\* with the same runtime flag returns for the same program, whatever the
\* generator was asked to generate before.
C28_GenerateDependsOnProgramOnly ==
    Generated => gen_result = generate(runtime_support, program)


Methods(class) == SelectSeq(class.members, LAMBDA m : m.member = "Method")

\* what stands between the parentheses of the signature of fn name
SignatureOf(impl_code, name) ==
    Split(Between(impl_code, "    pub fn " \o name \o "(", ")"), ", ")

\* C29: the signature emitted for a class method lists the self reference
\* and then one typed parameter for every parameter of the method, in
\* declaration order.
C29_MethodParametersEmitted ==
    Generated =>
        \A i \in 1..Len(program) :
            Declared(program[i]).s = "ClassDeclaration"
            => \E k \in 1..Len(buckets.functions) :
                  LET Holds(class, impl_code) ==
                          /\ starts_with(impl_code, "impl " \o class.name \o " {")
                          /\ contains(rust_code, impl_code)
                          /\ \A m \in 1..Len(Methods(class)) :
                                LET Listed(method, signature) ==
                                        /\ Len(signature) = 1 + Len(method.parameters)
                                        /\ signature[1] = "&self"
                                        /\ \A j \in 1..Len(method.parameters) :
                                              starts_with(signature[j + 1],
                                                          method.parameters[j].name \o ": ")
                                IN  Listed(Methods(class)[m],
                                           SignatureOf(impl_code, Methods(class)[m].name))
                  IN  Holds(Declared(program[i]), buckets.functions[k])


\* C30: map_type gives object-type literals with different member lists
\* different record type names, and so gives the intersections of two
\* object types with different operands different names.
C30_ObjectTypeNamesDistinct ==
    /\ \A other \in ObjectTypes :
          (mtype.ty = "ObjectType" /\ mtype.members # other.members) =>
              mresult.derive # map_type(TypeMapperNew(runtime), other).derive
    /\ \A l \in ObjectTypes, r \in ObjectTypes :
          (/\ mtype.ty = "Intersection"
           /\ mtype.left.ty = "ObjectType"
           /\ mtype.right.ty = "ObjectType"
           /\ <<mtype.left, mtype.right>> # <<l, r>>) =>
              mresult.text # map_type(TypeMapperNew(runtime),
                                      [ty |-> "Intersection", left |-> l, right |-> r]).text

====
